---- MODULE Spec2Model ----
(***************************************************************************)
(* Verification model of yusing/goutils: the memoising caches (cache/),    *)
(* the task tree (task/), the object pool with tombstones (pool/) and the  *)
(* sized byte-buffer pool (synk/).  Every subsystem has its own variables, *)
(* initial predicate, next-state relation and specification; a subsystem's *)
(* specification leaves the variables of the others unchanged.             *)
(***************************************************************************)
EXTENDS Integers, Sequences, FiniteSets, TLC

(***************************************************************************)
(* Bounds of the model.                                                    *)
(***************************************************************************)
NumThreads == 2
NumKeys == 2
MaxCalls == 3
MaxEnt == 3
MaxTime == 2
NumTasks == 2
NumCallbacks == 2
MaxBlocks == 2
MaxOps == 6
NumPKeys == 2
NumObjs == 4
MaxPoolOps == 3
NumVTasks == 3
NumVKeys == 2
NumVals == 1
NumDeps == 2

Threads == 1..NumThreads
Keys == 1..NumKeys
NoEntry == 0
NoThread == 0

VARIABLES
    \* ---- keyed cache: CachedContextKeyFuncState + statesJanitor ----
    kcfg,           \* builder configuration: maxEntries, ttl, retries, cleanupInterval
    entries,        \* xsync.Map[K, *CacheEntry]: key -> entry id, or NoEntry
    ent,            \* the CacheEntry objects: lock holder, result, err, expireAt, element, key
    nEnt,           \* number of CacheEntry objects allocated so far
    mru,            \* container/list of elements (entry ids), front first
    mruLock,        \* mruLock is held by Cleanup's eviction loop
    kth,            \* per caller: position in callContext and its locals
    fnCount,        \* number of fn invocations started so far
    kcalls,         \* number of callContext calls started so far
    ctxDone,        \* the callers' context has been cancelled
    lastRet,        \* the values returned by the latest callContext to return
    jan,            \* janitor: pendingCleanup, signal, lastCleanup, position in runLoop
    now,            \* the clock
    \* ---- single-result cache: CachedFuncState ----
    fcfg,           \* builder configuration: ttl, retries
    fst,            \* CachedFuncState: cached, result, err, last (and the values overwritten last)
    fmu,            \* holder of the state's mutex
    fsync,          \* callers that locked the mutex after the latest write of result/err
    fth,            \* per caller: position in callContext and its locals
    fret,           \* per caller: what its latest call returned
    fcount,         \* number of fn invocations started so far
    fcalls,         \* number of callContext calls started so far
    fctxDone,       \* the callers' context has been cancelled
    fnow,           \* the clock
    \* ---- task tree: Task + Dependencies ----
    tasks,          \* the Task objects: parent, needFinish, context, finishCalled, done
    children,       \* per task (and root): the Dependencies holding its subtasks
    callbacks,      \* per task: the Dependencies holding its callbacks
    cbs,            \* the Callback objects and their goroutines
    fin,            \* per caller of finish: position in finish and its arguments
    \* ---- byte-buffer pools: SizedBytesPool, UnsizedBytesPool, sizedFullCaps ----
    synk,           \* the channels of the pools (tiers, large, unsized) and sizedFullCaps
    held,           \* the buffers handed out and not put back
    nBlk,           \* number of allocations made so far
    nOps,           \* number of pool calls made so far
    got,            \* the latest GetSized: size asked, len and cap returned, path taken
    \* ---- object pool: Pool[T] ----
    pm,             \* p.m: key -> entry (absent, live object, or tombstone with removedAt)
    ptombs,         \* p.tombs
    pnow,           \* the clock, in seconds
    pth,            \* per caller: position in its operation, what it loaded and returned
    pOps,           \* number of pool operations started so far
    \* ---- task values: Task.values along the parent chain ----
    vpar,           \* per task: its parent (the root for a RootTask), or NotCreated
    vals,           \* per task: t.values, key -> stored value or Unset
    vget,           \* the caller of GetValue: position in the walk up the chain, result
    \* ---- Dependencies, step by step ----
    dm,             \* w.m: the elements stored
    dcount,         \* w.count
    ddone,          \* w.done: the channel it points to, or NilChan
    dchans,         \* the channels made so far: how many times each was closed
    dth,            \* per goroutine: position in Add, Delete or Wait, its locals, its result
    dadded,         \* the elements Add was called with
    ddeleted,       \* the elements Delete was called with
    dctx            \* the context given to Wait is done

keyedVars == <<kcfg, entries, ent, nEnt, mru, mruLock, kth, fnCount, kcalls, ctxDone, lastRet, jan, now>>

funcVars == <<fcfg, fst, fmu, fsync, fth, fret, fcount, fcalls, fctxDone, fnow>>

taskVars == <<tasks, children, callbacks, cbs, fin>>

synkVars == <<synk, held, nBlk, nOps, got>>

poolVars == <<pm, ptombs, pnow, pth, pOps>>

valueVars == <<vpar, vals, vget>>

depVars == <<dm, dcount, ddone, dchans, dth, dadded, ddeleted, dctx>>

vars == <<keyedVars, funcVars, taskVars, synkVars, poolVars, valueVars, depVars>>

\* the variables of the other subsystems
notKeyed == <<funcVars, taskVars, synkVars, poolVars, valueVars, depVars>>

notFunc == <<keyedVars, taskVars, synkVars, poolVars, valueVars, depVars>>

notTask == <<keyedVars, funcVars, synkVars, poolVars, valueVars, depVars>>

notSynk == <<keyedVars, funcVars, taskVars, poolVars, valueVars, depVars>>

notPool == <<keyedVars, funcVars, taskVars, synkVars, valueVars, depVars>>

notValues == <<keyedVars, funcVars, taskVars, synkVars, poolVars, depVars>>

notDeps == <<keyedVars, funcVars, taskVars, synkVars, poolVars, valueVars>>

(***************************************************************************)
(* Keyed cache (src/unnamed/part_007) and janitor (src/unnamed/part_006).  *)
(***************************************************************************)
\* the zero time.Time of an unset lastCleanup or expireAt: before every clock value
ZeroTime == 0 - (MaxTime + 1)

NoResult == [thread |-> NoThread, key |-> 0, val |-> 0, err |-> "nil", hit |-> FALSE]

IdleThread ==
    [pc |-> "idle", key |-> 0, entry |-> NoEntry, loaded |-> FALSE, retries |-> 0, inv |-> 0,
     deferMove |-> FALSE, deferTrigger |-> FALSE]

NewCacheEntry(k) ==
    [lock |-> NoThread, result |-> 0, err |-> "nil", expireAt |-> ZeroTime, element |-> FALSE,
     key |-> k]

\* entries.Size()
EntriesSize == Cardinality({k \in Keys : entries[k] # NoEntry})

\* checkExpired: never with ttl = 0, otherwise time.Now().After(entry.expireAt)
checkExpired(e) ==
    IF kcfg.ttl = 0 THEN FALSE ELSE now > ent[e].expireAt

RemoveFromSeq(s, x) == SelectSeq(s, LAMBDA y : y # x)

InSeq(s, x) == \E i \in 1..Len(s) : s[i] = x

\* moveToFront(k, elem): elem = nil pushes a new element, an element still in the
\* list is moved, an element already removed from the list is left alone
moveToFront(e, hasElem) ==
    IF ~hasElem THEN <<e>> \o mru
    ELSE IF InSeq(mru, e) THEN <<e>> \o RemoveFromSeq(mru, e)
    ELSE mru

\* the configurations built by NewKeyFunc(fn)[.WithMaxEntries(1)] and by
\* NewKeyFunc(fn)[.WithTTL(1)].WithRetriesZeroBackoff(1); times are in seconds, and
\* cleanupInterval is the smallest one WithCleanupInterval accepts
KeyedConfigs ==
    {[maxEntries |-> 0, ttl |-> 0, retries |-> 0, cleanupInterval |-> 1],
     [maxEntries |-> 0, ttl |-> 0, retries |-> 1, cleanupInterval |-> 1],
     [maxEntries |-> 1, ttl |-> 0, retries |-> 0, cleanupInterval |-> 1],
     [maxEntries |-> 0, ttl |-> 1, retries |-> 1, cleanupInterval |-> 1]}

KInitOf(cfgs) ==
    /\ kcfg \in cfgs
    /\ entries = [k \in Keys |-> NoEntry]
    /\ ent = [e \in 1..MaxEnt |-> NewCacheEntry(0)]
    /\ nEnt = 0
    /\ mru = <<>>
    /\ mruLock = FALSE
    /\ kth = [t \in Threads |-> IdleThread]
    /\ fnCount = 0
    /\ kcalls = 0
    /\ ctxDone = FALSE
    /\ lastRet = NoResult
    /\ jan = [pendingCleanup |-> FALSE, signal |-> 0, lastCleanup |-> ZeroTime,
              ticker |-> FALSE, pc |-> "idle", fromTick |-> FALSE]
    /\ now = 0

KInit == KInitOf(KeyedConfigs)

\* callContext, line 82: entries.LoadOrCompute(key, newCacheEntry)
LoadOrCompute(t, k) ==
    /\ kth[t].pc = "idle"
    /\ kcalls < MaxCalls
    /\ kcalls' = kcalls + 1
    /\ IF entries[k] # NoEntry
       THEN /\ kth' = [kth EXCEPT ![t] = [IdleThread EXCEPT !.pc = "lock", !.key = k,
                                              !.entry = entries[k], !.loaded = TRUE]]
            /\ UNCHANGED <<entries, ent, nEnt>>
       ELSE /\ nEnt < MaxEnt
            /\ nEnt' = nEnt + 1
            /\ ent' = [ent EXCEPT ![nEnt + 1] = NewCacheEntry(k)]
            /\ entries' = [entries EXCEPT ![k] = nEnt + 1]
            /\ kth' = [kth EXCEPT ![t] = [IdleThread EXCEPT !.pc = "lock", !.key = k,
                                              !.entry = nEnt + 1, !.loaded = FALSE]]
    /\ UNCHANGED <<kcfg, mru, mruLock, fnCount, ctxDone, lastRet, jan, now>>
    /\ UNCHANGED notKeyed

\* a caller's locals once callContext has returned: only the deferred moveToFront
\* is left to run
Returned(t) ==
    IF kth[t].deferMove
    THEN [IdleThread EXCEPT !.pc = "deferred", !.deferMove = TRUE, !.entry = kth[t].entry]
    ELSE IdleThread

\* the values callContext returns to caller t
Result(t, val, err, hit) ==
    [thread |-> t, key |-> kth[t].key, val |-> val, err |-> err, hit |-> hit]

\* callContext, lines 83-90 and 103-107: entry.Lock(); on the hit path
\* entry.Unlock(); for a loaded but expired entry (or a new one without
\* maxEntries) the entry into fn.  The hit path reads entry.result and entry.err
\* after the unlock: with ttl = 0 nothing writes a computed entry again and the
\* read is taken here, with ttl > 0 it is the later step HitReturn
EntryLock(t) ==
    LET e == kth[t].entry IN
    /\ kth[t].pc = "lock"
    /\ ent[e].lock = NoThread
    /\ IF kth[t].loaded /\ ~checkExpired(e)
       THEN /\ IF kcfg.ttl = 0
               THEN /\ kth' = [kth EXCEPT ![t] = Returned(t)]
                    /\ lastRet' = Result(t, ent[e].result, ent[e].err, TRUE)
               ELSE /\ kth' = [kth EXCEPT ![t].pc = "hit"]
                    /\ UNCHANGED lastRet
            /\ UNCHANGED <<ent, fnCount>>
       ELSE /\ ent' = [ent EXCEPT ![e].lock = t]
            /\ UNCHANGED lastRet
            /\ IF ~kth[t].loaded /\ kcfg.maxEntries > 0
               THEN /\ kth' = [kth EXCEPT ![t].pc = "front", ![t].retries = kcfg.retries]
                    /\ UNCHANGED fnCount
               ELSE /\ kth' = [kth EXCEPT ![t].pc = "fn", ![t].retries = kcfg.retries,
                                          ![t].inv = fnCount + 1]
                    /\ fnCount' = fnCount + 1
    /\ UNCHANGED <<kcfg, entries, nEnt, mru, mruLock, kcalls, ctxDone, jan, now>>
    /\ UNCHANGED notKeyed

\* callContext, line 89: return entry.result, entry.err, read without the lock
HitReturn(t) ==
    LET e == kth[t].entry IN
    /\ kth[t].pc = "hit"
    /\ kth' = [kth EXCEPT ![t] = Returned(t)]
    /\ lastRet' = Result(t, ent[e].result, ent[e].err, TRUE)
    /\ UNCHANGED <<kcfg, entries, ent, nEnt, mru, mruLock, fnCount, kcalls, ctxDone, jan, now>>
    /\ UNCHANGED notKeyed

\* callContext, lines 92-97: the first moveToFront of a new entry
FirstMoveToFront(t) ==
    LET e == kth[t].entry IN
    /\ kth[t].pc = "front"
    /\ ~mruLock
    /\ mru' = moveToFront(e, ent[e].element)
    /\ ent' = [ent EXCEPT ![e].element = TRUE]
    /\ kth' = [kth EXCEPT ![t].pc = "size", ![t].deferMove = TRUE]
    /\ UNCHANGED <<kcfg, entries, nEnt, mruLock, fnCount, kcalls, ctxDone, lastRet, jan, now>>
    /\ UNCHANGED notKeyed

\* callContext, lines 98-107: defer Janitor.TriggerCleanup when over maxEntries,
\* then fn is entered
SizeCheck(t) ==
    /\ kth[t].pc = "size"
    /\ kth' = [kth EXCEPT ![t].pc = "fn", ![t].inv = fnCount + 1,
                          ![t].deferTrigger = (EntriesSize > kcfg.maxEntries)]
    /\ fnCount' = fnCount + 1
    /\ UNCHANGED <<kcfg, entries, ent, nEnt, mru, mruLock, kcalls, ctxDone, lastRet, jan, now>>
    /\ UNCHANGED notKeyed

\* a trigger that sends whatever the pending flag says
TriggerAgain == [jan EXCEPT !.pendingCleanup = TRUE, !.signal = jan.signal + 1]

\* statesJanitor.TriggerCleanup: CompareAndSwap(false, true), then a non-blocking send
TriggerCleanup ==
    IF jan.pendingCleanup THEN jan
    ELSE [jan EXCEPT !.pendingCleanup = TRUE, !.signal = 1]

\* callContext, lines 107-133: fn returns (its invocation number, err).  A failure
\* with retries left goes round the retry loop; otherwise expireAt is set, the
\* result returned, and the deferred entry.Unlock() and TriggerCleanup run
FnReturn(t, failed) ==
    LET e == kth[t].entry
        err == IF failed THEN "fail" ELSE "nil" IN
    /\ kth[t].pc = "fn"
    /\ IF failed /\ kth[t].retries > 0
       THEN /\ ent' = [ent EXCEPT ![e].result = kth[t].inv, ![e].err = err]
            /\ kth' = [kth EXCEPT ![t].pc = "retry"]
            /\ UNCHANGED <<jan, lastRet>>
       ELSE /\ ent' = [ent EXCEPT ![e].result = kth[t].inv, ![e].err = err,
                                  ![e].lock = NoThread,
                                  ![e].expireAt =
                                      IF kcfg.ttl > 0 THEN now + kcfg.ttl ELSE ent[e].expireAt]
            /\ kth' = [kth EXCEPT ![t] = Returned(t)]
            /\ lastRet' = Result(t, kth[t].inv, err, FALSE)
            /\ jan' = IF kth[t].deferTrigger THEN TriggerCleanup ELSE jan
    /\ UNCHANGED <<kcfg, entries, nEnt, mru, mruLock, fnCount, kcalls, ctxDone, now>>
    /\ UNCHANGED notKeyed

\* callContext, lines 112-120: one round of the retry loop: a done context returns
\* (entry.result, context.Cause(ctx)) through the deferred calls, otherwise fn is
\* entered again
Retry(t) ==
    LET e == kth[t].entry IN
    /\ kth[t].pc = "retry"
    /\ IF ctxDone
       THEN /\ ent' = [ent EXCEPT ![e].lock = NoThread]
            /\ kth' = [kth EXCEPT ![t] = Returned(t)]
            /\ lastRet' = Result(t, ent[e].result, "cause", FALSE)
            /\ jan' = IF kth[t].deferTrigger THEN TriggerCleanup ELSE jan
            /\ UNCHANGED fnCount
       ELSE /\ kth' = [kth EXCEPT ![t].pc = "fn", ![t].retries = kth[t].retries - 1,
                                  ![t].inv = fnCount + 1]
            /\ fnCount' = fnCount + 1
            /\ UNCHANGED <<ent, jan, lastRet>>
    /\ UNCHANGED <<kcfg, entries, nEnt, mru, mruLock, kcalls, ctxDone, now>>
    /\ UNCHANGED notKeyed

\* callContext, line 96: the deferred second moveToFront
DeferredMoveToFront(t) ==
    /\ kth[t].pc = "deferred"
    /\ ~mruLock
    /\ mru' = moveToFront(kth[t].entry, TRUE)
    /\ kth' = [kth EXCEPT ![t].pc = "idle", ![t].deferMove = FALSE, ![t].entry = NoEntry]
    /\ UNCHANGED <<kcfg, entries, ent, nEnt, mruLock, fnCount, kcalls, ctxDone, lastRet, jan, now>>
    /\ UNCHANGED notKeyed

\* the caller's context is cancelled (it is read only by the retry loop)
CancelCtx ==
    /\ kcfg.retries > 0
    /\ ~ctxDone
    /\ ctxDone' = TRUE
    /\ UNCHANGED <<kcfg, entries, ent, nEnt, mru, mruLock, kth, fnCount, kcalls, lastRet, jan, now>>
    /\ UNCHANGED notKeyed

\* the end of j.cleanup(s); CleanupAll then stores pendingCleanup = false, the
\* signal case of runLoop does not
AfterCleanup(ran) ==
    [jan EXCEPT !.pc = "idle",
                !.lastCleanup = IF ran THEN now ELSE jan.lastCleanup,
                !.pendingCleanup = IF jan.fromTick THEN FALSE ELSE jan.pendingCleanup]

\* statesJanitor.cleanup, lines 86-90 of the janitor: skip when the last cleanup
\* is less than cleanupInterval ago
BeginCleanup(j) ==
    IF now - j.lastCleanup < kcfg.cleanupInterval
    THEN [j EXCEPT !.pc = "idle",
                   !.pendingCleanup = IF j.fromTick THEN FALSE ELSE j.pendingCleanup]
    ELSE [j EXCEPT !.pc = "cleanup"]

\* runLoop, case <-ticker.C: CleanupAll for the one registered state
JanitorTick ==
    /\ jan.pc = "idle"
    /\ jan.ticker
    /\ kcfg.maxEntries > 0
    /\ IF jan.pendingCleanup
       THEN jan' = [jan EXCEPT !.ticker = FALSE]
       ELSE jan' = BeginCleanup([jan EXCEPT !.ticker = FALSE, !.pendingCleanup = TRUE,
                                            !.fromTick = TRUE])
    /\ UNCHANGED <<kcfg, entries, ent, nEnt, mru, mruLock, kth, fnCount, kcalls, ctxDone, lastRet, now>>
    /\ UNCHANGED notKeyed

\* runLoop, case s := <-j.signal
JanitorSignal ==
    /\ jan.pc = "idle"
    /\ jan.signal > 0
    /\ jan' = BeginCleanup([jan EXCEPT !.signal = 0, !.fromTick = FALSE])
    /\ UNCHANGED <<kcfg, entries, ent, nEnt, mru, mruLock, kth, fnCount, kcalls, ctxDone, lastRet, now>>
    /\ UNCHANGED notKeyed

\* Cleanup, lines 61-69: the two early returns, then mruLock.Lock()
Cleanup ==
    /\ jan.pc = "cleanup"
    /\ IF kcfg.maxEntries = 0 \/ EntriesSize <= kcfg.maxEntries
       THEN /\ jan' = AfterCleanup(TRUE)
            /\ UNCHANGED mruLock
       ELSE /\ ~mruLock
            /\ mruLock' = TRUE
            /\ jan' = [jan EXCEPT !.pc = "evict"]
    /\ UNCHANGED <<kcfg, entries, ent, nEnt, mru, kth, fnCount, kcalls, ctxDone, lastRet, now>>
    /\ UNCHANGED notKeyed

\* Cleanup, lines 70-74: one iteration of the eviction loop (remove the back of
\* the list, delete its key from entries), or the end of the loop
CleanupEvict ==
    /\ jan.pc = "evict"
    /\ IF Len(mru) > kcfg.maxEntries
       THEN /\ mru' = SubSeq(mru, 1, Len(mru) - 1)
            /\ entries' = [entries EXCEPT ![ent[mru[Len(mru)]].key] = NoEntry]
            /\ UNCHANGED <<jan, mruLock>>
       ELSE /\ mruLock' = FALSE
            /\ jan' = AfterCleanup(TRUE)
            /\ UNCHANGED <<mru, entries>>
    /\ UNCHANGED <<kcfg, ent, nEnt, kth, fnCount, kcalls, ctxDone, lastRet, now>>
    /\ UNCHANGED notKeyed

\* a second passes: the clock advances and the janitor's ticker fires
KTick ==
    /\ now < MaxTime
    /\ now' = now + 1
    /\ jan' = [jan EXCEPT !.ticker = (kcfg.maxEntries > 0)]
    /\ UNCHANGED <<kcfg, entries, ent, nEnt, mru, mruLock, kth, fnCount, kcalls, ctxDone, lastRet>>
    /\ UNCHANGED notKeyed

\* the later of two times, for a timestamp that falls out of the window
Later(a, b) == IF a > b THEN a ELSE b

\* a second passes once the clock is at the end of its window: the window slides,
\* every stored time moves one second back (not below the zero time) and the
\* janitor's ticker fires
KTickOn ==
    /\ now = MaxTime
    /\ ent' = [e \in 1..MaxEnt |-> [ent[e] EXCEPT !.expireAt = Later(ent[e].expireAt - 1, ZeroTime)]]
    /\ jan' = [jan EXCEPT !.ticker = (kcfg.maxEntries > 0),
                          !.lastCleanup = Later(jan.lastCleanup - 1, ZeroTime)]
    /\ UNCHANGED <<kcfg, entries, nEnt, mru, mruLock, kth, fnCount, kcalls, ctxDone, lastRet, now>>
    /\ UNCHANGED notKeyed

KNext ==
    \/ \E t \in Threads, k \in Keys : LoadOrCompute(t, k)
    \/ \E t \in Threads : EntryLock(t)
    \/ \E t \in Threads : HitReturn(t)
    \/ \E t \in Threads : FirstMoveToFront(t)
    \/ \E t \in Threads : SizeCheck(t)
    \/ \E t \in Threads, failed \in BOOLEAN : FnReturn(t, failed)
    \/ \E t \in Threads : Retry(t)
    \/ \E t \in Threads : DeferredMoveToFront(t)
    \/ CancelCtx
    \/ JanitorTick
    \/ JanitorSignal
    \/ Cleanup
    \/ CleanupEvict
    \/ KTick

\* the configuration registered with the janitor: NewKeyFunc(fn).WithMaxEntries(1)
JanitorConfigs ==
    {[maxEntries |-> 1, ttl |-> 0, retries |-> 0, cleanupInterval |-> 1]}

\* the keyed cache with one goroutine calling it, over an unbounded run of the
\* clock; without ttl and retries HitReturn, Retry and CancelCtx are never enabled
Caller == 1

KNextOn ==
    \/ \E k \in Keys : LoadOrCompute(Caller, k)
    \/ EntryLock(Caller)
    \/ FirstMoveToFront(Caller)
    \/ SizeCheck(Caller)
    \/ \E failed \in BOOLEAN : FnReturn(Caller, failed)
    \/ DeferredMoveToFront(Caller)
    \/ JanitorTick
    \/ JanitorSignal
    \/ Cleanup
    \/ CleanupEvict
    \/ KTick
    \/ KTickOn

\* the caller's goroutine is scheduled, fn returns, the janitor's runLoop is
\* scheduled and the ticker keeps firing; a goroutine waiting for a sync.Mutex
\* gets it in the end (the mutex's starvation mode), which is strong fairness of
\* the steps that lock
KFair ==
    /\ WF_vars(EntryLock(Caller))
    /\ SF_vars(FirstMoveToFront(Caller))
    /\ WF_vars(SizeCheck(Caller))
    /\ WF_vars(\E failed \in BOOLEAN : FnReturn(Caller, failed))
    /\ SF_vars(DeferredMoveToFront(Caller))
    /\ WF_vars(JanitorTick)
    /\ WF_vars(JanitorSignal)
    /\ SF_vars(Cleanup)
    /\ WF_vars(CleanupEvict)
    /\ WF_vars(KTick)
    /\ WF_vars(KTickOn)

(***************************************************************************)
(* Single-result cache: CachedFuncState (src/cache/state.go).              *)
(***************************************************************************)
\* the configurations built by NewFunc(fn)[.WithTTL(1)][.WithRetriesZeroBackoff(1)]
FuncConfigs == [ttl : 0..1, retries : 0..1]

FIdle == [pc |-> "idle", retries |-> 0, inv |-> 0, first |-> FALSE, early |-> FALSE]

NoRet == [returned |-> FALSE, val |-> 0, err |-> "nil"]

FInit ==
    /\ fcfg \in FuncConfigs
    /\ fst = [cached |-> 0, result |-> 0, err |-> "nil", last |-> ZeroTime,
              prevResult |-> 0, prevErr |-> "nil"]
    /\ fmu = NoThread
    /\ fsync = {}
    /\ fth = [t \in Threads |-> FIdle]
    /\ fret = [t \in Threads |-> NoRet]
    /\ fcount = 0
    /\ fcalls = 0
    /\ fctxDone = FALSE
    /\ fnow = 0

\* CachedFuncState.checkExpired
fcheckExpired ==
    IF fcfg.ttl = 0 THEN FALSE
    ELSE IF fst.last = ZeroTime THEN TRUE
    ELSE fnow - fst.last > fcfg.ttl

\* CachedFuncState.setResult; result and err are already in place
setResult ==
    [fst EXCEPT !.cached = 1, !.last = IF fcfg.ttl > 0 THEN fnow ELSE fst.last]

MakeRet(val, err) == [returned |-> TRUE, val |-> val, err |-> err]

\* state.result and state.err as caller t reads them on the fast path, where it
\* holds no lock: a caller that locked state after the latest write (or made it)
\* reads that write; for any other caller the read is unordered with the write and
\* may also yield the values the fields held before it
UnlockedRead(t, stale) ==
    IF stale /\ t \notin fsync
    THEN MakeRet(fst.prevResult, fst.prevErr)
    ELSE MakeRet(fst.result, fst.err)

\* a caller enters callContext; early records that no result was cached yet
FCall(t) ==
    /\ fth[t].pc = "idle"
    /\ fcalls < MaxCalls
    /\ fcalls' = fcalls + 1
    /\ fth' = [fth EXCEPT ![t] = [FIdle EXCEPT !.pc = "check", !.early = (fst.cached = 0)]]
    /\ fret' = [fret EXCEPT ![t] = NoRet]
    /\ UNCHANGED <<fcfg, fst, fmu, fsync, fcount, fctxDone, fnow>>
    /\ UNCHANGED notFunc

\* callContext, lines 41-47: the atomic check of state.cached and the early return
FastCheck(t, stale) ==
    /\ fth[t].pc = "check"
    /\ IF fst.cached = 1 /\ ~fcheckExpired
       THEN /\ fret' = [fret EXCEPT ![t] = UnlockedRead(t, stale)]
            /\ fth' = [fth EXCEPT ![t].pc = "idle"]
       ELSE /\ fth' = [fth EXCEPT ![t].pc = "lock"]
            /\ UNCHANGED fret
    /\ UNCHANGED <<fcfg, fst, fmu, fsync, fcount, fcalls, fctxDone, fnow>>
    /\ UNCHANGED notFunc

\* callContext, lines 49-59: state.Lock(), the second check, and the entry into fn
FLock(t) ==
    /\ fth[t].pc = "lock"
    /\ fmu = NoThread
    /\ fsync' = fsync \cup {t}
    /\ IF fst.cached = 1 /\ ~fcheckExpired
       THEN /\ fret' = [fret EXCEPT ![t] = MakeRet(fst.result, fst.err)]
            /\ fth' = [fth EXCEPT ![t].pc = "idle"]
            /\ UNCHANGED <<fmu, fcount>>
       ELSE /\ fmu' = t
            /\ fth' = [fth EXCEPT ![t].pc = "fn", ![t].retries = fcfg.retries,
                                  ![t].inv = fcount + 1, ![t].first = TRUE]
            /\ fcount' = fcount + 1
            /\ UNCHANGED fret
    /\ UNCHANGED <<fcfg, fst, fcalls, fctxDone, fnow>>
    /\ UNCHANGED notFunc

\* callContext, lines 59-81: fn returns (its invocation number, err) into
\* state.result and state.err.  After the first call the retry loop runs while
\* retries are left; inside the loop a nil error breaks it.  Past the loop:
\* setResult, the return and the deferred state.Unlock()
FFnReturn(t, failed) ==
    LET err == IF failed THEN "fail" ELSE "nil"
        written == [fst EXCEPT !.result = fth[t].inv, !.err = err,
                               !.prevResult = fst.result, !.prevErr = fst.err]
        again == fth[t].retries > 0 /\ (fth[t].first \/ failed) IN
    /\ fth[t].pc = "fn"
    /\ fsync' = {t}
    /\ IF again
       THEN /\ fst' = written
            /\ fth' = [fth EXCEPT ![t].pc = "retry", ![t].first = FALSE]
            /\ UNCHANGED <<fmu, fret>>
       ELSE /\ fst' = [written EXCEPT !.cached = 1,
                                      !.last = IF fcfg.ttl > 0 THEN fnow ELSE fst.last]
            /\ fth' = [fth EXCEPT ![t] = [FIdle EXCEPT !.early = fth[t].early]]
            /\ fret' = [fret EXCEPT ![t] = MakeRet(fth[t].inv, err)]
            /\ fmu' = NoThread
    /\ UNCHANGED <<fcfg, fcount, fcalls, fctxDone, fnow>>
    /\ UNCHANGED notFunc

\* callContext, lines 63-71: one round of the retry loop
FRetry(t) ==
    /\ fth[t].pc = "retry"
    /\ IF fctxDone
       THEN /\ fret' = [fret EXCEPT ![t] = MakeRet(fst.result, "cause")]
            /\ fth' = [fth EXCEPT ![t] = [FIdle EXCEPT !.early = fth[t].early]]
            /\ fmu' = NoThread
            /\ UNCHANGED fcount
       ELSE /\ fth' = [fth EXCEPT ![t].pc = "fn", ![t].retries = fth[t].retries - 1,
                                  ![t].inv = fcount + 1]
            /\ fcount' = fcount + 1
            /\ UNCHANGED <<fret, fmu>>
    /\ UNCHANGED <<fcfg, fst, fsync, fcalls, fctxDone, fnow>>
    /\ UNCHANGED notFunc

\* the callers' context is cancelled (it is read only by the retry loop)
FCancelCtx ==
    /\ fcfg.retries > 0
    /\ ~fctxDone
    /\ fctxDone' = TRUE
    /\ UNCHANGED <<fcfg, fst, fmu, fsync, fth, fret, fcount, fcalls, fnow>>
    /\ UNCHANGED notFunc

\* a second passes
FTick ==
    /\ fcfg.ttl > 0
    /\ fnow < MaxTime
    /\ fnow' = fnow + 1
    /\ UNCHANGED <<fcfg, fst, fmu, fsync, fth, fret, fcount, fcalls, fctxDone>>
    /\ UNCHANGED notFunc

FNext ==
    \/ \E t \in Threads : FCall(t)
    \/ \E t \in Threads, stale \in BOOLEAN : FastCheck(t, stale)
    \/ \E t \in Threads : FLock(t)
    \/ \E t \in Threads, failed \in BOOLEAN : FFnReturn(t, failed)
    \/ \E t \in Threads : FRetry(t)
    \/ FCancelCtx
    \/ FTick

(***************************************************************************)
(* Task tree (src/task/task.go) over Dependencies (src/task/dependencies.go)*)
(***************************************************************************)
\* the root task, parent of the top-level tasks; it is never finished here
Root == 0

TaskIds == 1..NumTasks

CbIds == 1..NumCallbacks

\* the reasons passed to Finish: nil or a non-nil error
Reasons == {"nil", "r1"}

\* the callers of finish: the user threads, then one AfterFunc goroutine per task
FinIds == 1..(NumThreads + NumTasks)

AutoFin(t) == NumThreads + t

NewDependencies == [m |-> {}, ch |-> "nil"]

\* Add: store the element; the first element makes a new done channel
DepAdd(d, x) == [m |-> d.m \cup {x}, ch |-> IF d.m = {} THEN "open" ELSE d.ch]

\* a Delete that removes nothing
DepKeep(d, x) == d

\* Delete: LoadAndDelete; the last element closes the done channel
DepDelete(d, x) ==
    IF x \in d.m
    THEN [m |-> d.m \ {x}, ch |-> IF d.m = {x} /\ d.ch = "open" THEN "closed" ELSE d.ch]
    ELSE d

\* Wait returns nil: no done channel was ever made, or it is closed
DepWaitReady(d) == d.ch # "open"

NoTask ==
    [created |-> FALSE, parent |-> Root, needFinish |-> FALSE, cancelled |-> FALSE,
     cause |-> "nil", src |-> Root, born |-> FALSE, finishCalled |-> FALSE,
     cancels |-> 0, closes |-> 0, removes |-> 0, afterPc |-> "none", auto |-> FALSE]

NoCallback ==
    [task |-> Root, wait |-> FALSE, reg |-> FALSE, pre |-> FALSE, pending |-> 0,
     runs |-> 0, early |-> FALSE]

\* what reportStucked logs: the callbacks and the children it names
NoReport == [logged |-> FALSE, callbacks |-> {}, children |-> {}]

IdleFinish ==
    [pc |-> "idle", task |-> Root, reason |-> "nil", wait |-> FALSE, first |-> FALSE,
     snap |-> {}, timedOut |-> FALSE, report |-> NoReport]

TInit ==
    /\ tasks = [t \in TaskIds |-> NoTask]
    /\ children = [t \in {Root} \cup TaskIds |-> NewDependencies]
    /\ callbacks = [t \in TaskIds |-> NewDependencies]
    /\ cbs = [c \in CbIds |-> NoCallback]
    /\ fin = [p \in FinIds |-> IdleFinish]

RECURSIVE AncestorsOf(_, _)
AncestorsOf(ts, d) ==
    IF d = Root \/ ts[d].parent = Root
    THEN {}
    ELSE {ts[d].parent} \cup AncestorsOf(ts, ts[d].parent)

Descendants(ts, t) == {d \in TaskIds : ts[d].created /\ t \in AncestorsOf(ts, d)}

\* context.Cause of a cancellation raised with cause c: nil becomes context.Canceled
CancelCause(c) == IF c = "nil" THEN "canceled" ELSE c

\* a CancelCauseFunc that replaces the cause of a cancelled context
cancelAgain(ts, t, c) ==
    [d \in TaskIds |->
        IF d = t \/ d \in Descendants(ts, t)
        THEN [ts[d] EXCEPT !.cancelled = TRUE, !.cause = CancelCause(c), !.src = t]
        ELSE ts[d]]

\* the CancelCauseFunc of t's context: a no-op on a cancelled context, otherwise
\* it cancels t and every context derived from it that is not cancelled yet
cancel(ts, t, c) ==
    IF ts[t].cancelled
    THEN ts
    ELSE [d \in TaskIds |->
            IF (d = t \/ d \in Descendants(ts, t)) /\ ~ts[d].cancelled
            THEN [ts[d] EXCEPT !.cancelled = TRUE, !.cause = CancelCause(c), !.src = t]
            ELSE ts[d]]

\* t.done is closed: closedCh when needFinish is false, else closed by finish
DoneClosed(t) == ~tasks[t].needFinish \/ tasks[t].closes > 0

\* Finish was called on p or on a task above it
Finished(p) ==
    p # Root /\ \E a \in {p} \cup AncestorsOf(tasks, p) : tasks[a].finishCalled

\* Subtask: children.Add(child), then the child's context is derived from the
\* parent's (a cancelled parent gives a child that is born cancelled)
NewSubtask(p, needFinish) ==
    \E t \in TaskIds :
        /\ ~tasks[t].created
        /\ \A u \in TaskIds : u < t => tasks[u].created
        /\ IF t = 1 THEN p = Root ELSE p \in TaskIds /\ tasks[p].created
        /\ LET pc == p # Root /\ tasks[p].cancelled
           IN tasks' = [tasks EXCEPT ![t] =
                  [NoTask EXCEPT !.created = TRUE, !.parent = p, !.needFinish = needFinish,
                                 !.cancelled = pc, !.born = pc,
                                 !.cause = IF pc THEN tasks[p].cause ELSE "nil",
                                 !.src = IF pc THEN tasks[p].src ELSE Root]]
        /\ children' = [children EXCEPT ![p] = DepAdd(@, t)]
        /\ UNCHANGED <<callbacks, cbs, fin>>
        /\ UNCHANGED notTask

\* Subtask called as its comment asks: not after Finish on the task or above it
Subtask(p, needFinish) == ~Finished(p) /\ NewSubtask(p, needFinish)

\* Subtask called after Finish on the task or on a task above it
SubtaskLate(p, needFinish) == Finished(p) /\ NewSubtask(p, needFinish)

\* OnFinished (onFinished = TRUE) and OnCancel; ran: the callbacks goroutine,
\* fired at once on a cancelled context, ranged over the callbacks before the Add
addCallback(t, onFinished, ran) ==
    \E c \in CbIds :
        /\ ~cbs[c].reg
        /\ \A u \in CbIds : u < c => cbs[u].reg
        /\ tasks[t].created /\ ~tasks[t].finishCalled
        /\ ran => (tasks[t].afterPc = "none" /\ tasks[t].cancelled)
        /\ tasks' = [tasks EXCEPT ![t].afterPc =
                        IF @ # "none" THEN @ ELSE IF ran THEN "waitdone" ELSE "armed"]
        /\ cbs' = [cbs EXCEPT ![c] =
                      [NoCallback EXCEPT !.task = t, !.reg = TRUE,
                                         !.wait = onFinished /\ tasks[t].needFinish,
                                         !.pre = ~tasks[t].cancelled]]
        /\ callbacks' = [callbacks EXCEPT ![t] = DepAdd(@, c)]
        /\ UNCHANGED <<children, fin>>
        /\ UNCHANGED notTask

\* the callbacks goroutine, first loop: start the non-waiting callbacks
RunOnCancel(t) ==
    /\ tasks[t].afterPc = "armed" /\ tasks[t].cancelled
    /\ tasks' = [tasks EXCEPT ![t].afterPc = "waitdone"]
    /\ cbs' = [c \in CbIds |->
                  IF c \in callbacks[t].m /\ ~cbs[c].wait
                  THEN [cbs[c] EXCEPT !.pending = @ + 1]
                  ELSE cbs[c]]
    /\ UNCHANGED <<children, callbacks, fin>>
    /\ UNCHANGED notTask

\* the callbacks goroutine after <-t.done: start the waiting callbacks
RunOnFinished(t) ==
    /\ tasks[t].afterPc = "waitdone" /\ DoneClosed(t)
    /\ tasks' = [tasks EXCEPT ![t].afterPc = "finished"]
    /\ cbs' = [c \in CbIds |->
                  IF c \in callbacks[t].m /\ cbs[c].wait
                  THEN [cbs[c] EXCEPT !.pending = @ + 1]
                  ELSE cbs[c]]
    /\ UNCHANGED <<children, callbacks, fin>>
    /\ UNCHANGED notTask

\* a callback's goroutine: invokeWithRecover(cb), then callbacks.Delete(cb)
CbRun(c) ==
    /\ cbs[c].pending > 0
    /\ cbs' = [cbs EXCEPT ![c].pending = @ - 1, ![c].runs = @ + 1,
                          ![c].early = children[cbs[c].task].m # {}]
    /\ callbacks' = [callbacks EXCEPT ![cbs[c].task] = DepDelete(@, c)]
    /\ UNCHANGED <<tasks, children, fin>>
    /\ UNCHANGED notTask

\* a finish that never finds finishCalled set
AlwaysFirst(t) == FALSE

\* finish, under t.mu: a call that finds finishCalled set only waits
finishCalled(t) == tasks[t].finishCalled

FinishEnter(p, t, reason, wait) ==
    /\ fin' = [fin EXCEPT ![p] =
                  [pc |-> IF finishCalled(t) THEN "wait" ELSE "cancel",
                   task |-> t, reason |-> IF finishCalled(t) THEN "nil" ELSE reason,
                   wait |-> wait,
                   first |-> ~finishCalled(t), snap |-> Descendants(tasks, t),
                   timedOut |-> FALSE, report |-> NoReport]]

\* Finish (wait = FALSE) and FinishAndWait (wait = TRUE) called by a user thread;
\* every user thread makes one call
FinishBegin(p, t, reason, wait) ==
    /\ p \in Threads /\ fin[p].pc = "idle"
    /\ \A q \in Threads : q < p => fin[q].pc # "idle"
    /\ tasks[t].created
    /\ FinishEnter(p, t, reason, wait)
    /\ tasks' = [tasks EXCEPT ![t].finishCalled = TRUE]
    /\ UNCHANGED <<children, callbacks, cbs>>
    /\ UNCHANGED notTask

\* where finish continues after cancel and close
AfterClose(p) == IF fin[p].wait THEN "wait" ELSE "remove"

\* the AfterFunc of a needFinish = false task: child.Finish(child.FinishCause()).
\* The context is cancelled already, so t.cancel changes nothing, there is no
\* done channel to close and no wait: the first call of finish goes straight to
\* t.parent.children.Delete(t); a later one waits in waitFinish
AutoFinish(t) ==
    /\ tasks[t].created /\ ~tasks[t].needFinish
    /\ tasks[t].cancelled /\ ~tasks[t].auto
    /\ IF finishCalled(t)
       THEN /\ fin' = [fin EXCEPT ![AutoFin(t)] =
                         [IdleFinish EXCEPT !.pc = "wait", !.task = t,
                                            !.snap = Descendants(tasks, t)]]
            /\ tasks' = [tasks EXCEPT ![t].auto = TRUE]
            /\ UNCHANGED children
       ELSE /\ fin' = [fin EXCEPT ![AutoFin(t)] = [IdleFinish EXCEPT !.pc = "done"]]
            /\ tasks' = [tasks EXCEPT ![t].auto = TRUE, ![t].finishCalled = TRUE,
                                      ![t].cancels = @ + 1,
                                      ![t].removes =
                                          IF t \in children[tasks[t].parent].m
                                          THEN @ + 1 ELSE @]
            /\ children' = [children EXCEPT ![tasks[t].parent] = DepDelete(@, t)]
    /\ UNCHANGED <<callbacks, cbs>>
    /\ UNCHANGED notTask

\* finish returns to its caller
Return(p) == fin' = [fin EXCEPT ![p] = [IdleFinish EXCEPT !.pc = "done"]]

\* a report that leaves the children out
reportCallbacksOnly(t) ==
    [logged |-> callbacks[t].m # {}, callbacks |-> callbacks[t].m, children |-> {}]

\* listStuckedCallbacks: the callbacks of t and of everything below it that is
\* still in a children set
RECURSIVE listStuckedCallbacks(_)
listStuckedCallbacks(t) ==
    callbacks[t].m \cup UNION {listStuckedCallbacks(c) : c \in children[t].m}

\* listStuckedChildren: the children of t (their callbacks are listed with them)
listStuckedChildren(t) == children[t].m

\* reportStucked: nothing is logged when both lists are empty
reportStucked(t) ==
    [logged |-> listStuckedCallbacks(t) # {} \/ listStuckedChildren(t) # {},
     callbacks |-> listStuckedCallbacks(t), children |-> listStuckedChildren(t)]

\* after waitFinish the first call goes on, with reportStucked after a timeout; a
\* later call returns
AfterWait(p, timedOut) ==
    IF fin[p].first
    THEN fin' = [fin EXCEPT ![p].pc = "remove", ![p].timedOut = timedOut,
                            ![p].report = IF timedOut THEN reportStucked(fin[p].task)
                                          ELSE NoReport]
    ELSE Return(p)

\* finish: t.cancel(fmtCause(reason)), then close(t.done) when needFinish
FinishCancel(p) ==
    /\ fin[p].pc = "cancel"
    /\ LET t == fin[p].task
           ts == cancel(tasks, t, fin[p].reason)
       IN tasks' = [ts EXCEPT ![t].cancels = @ + 1,
                              ![t].closes = IF tasks[t].needFinish THEN @ + 1 ELSE @]
    /\ fin' = [fin EXCEPT ![p].pc = AfterClose(p), ![p].reason = "nil"]
    /\ UNCHANGED <<children, callbacks, cbs>>
    /\ UNCHANGED notTask

\* waitFinish returns true: t.children.Wait(ctx) and then t.callbacks.Wait(ctx)
\* returned nil (nothing is added to either once finish has been entered)
WaitFinish(p) ==
    /\ fin[p].pc = "wait"
    /\ DepWaitReady(children[fin[p].task])
    /\ DepWaitReady(callbacks[fin[p].task])
    /\ AfterWait(p, FALSE)
    /\ UNCHANGED <<tasks, children, callbacks, cbs>>
    /\ UNCHANGED notTask

\* waitFinish returns false: the taskTimeout context expired in one of the Waits
WaitTimeout(p) ==
    /\ fin[p].pc = "wait"
    /\ AfterWait(p, TRUE)
    /\ UNCHANGED <<tasks, children, callbacks, cbs>>
    /\ UNCHANGED notTask

\* finish: t.parent.children.Delete(t), then return
FinishRemove(p) ==
    /\ fin[p].pc = "remove"
    /\ LET t == fin[p].task
       IN /\ children' = [children EXCEPT ![tasks[t].parent] = DepDelete(@, t)]
          /\ tasks' = [tasks EXCEPT ![t].removes =
                          IF t \in children[tasks[t].parent].m THEN @ + 1 ELSE @]
    /\ Return(p)
    /\ UNCHANGED <<callbacks, cbs>>
    /\ UNCHANGED notTask

TNext ==
    \/ \E p \in {Root} \cup TaskIds, nf \in BOOLEAN : Subtask(p, nf)
    \/ \E t \in TaskIds, onf \in BOOLEAN, ran \in BOOLEAN : addCallback(t, onf, ran)
    \/ \E t \in TaskIds : RunOnCancel(t)
    \/ \E t \in TaskIds : RunOnFinished(t)
    \/ \E c \in CbIds : CbRun(c)
    \/ \E p \in Threads, t \in TaskIds, r \in Reasons, w \in BOOLEAN : FinishBegin(p, t, r, w)
    \/ \E t \in TaskIds : AutoFinish(t)
    \/ \E p \in FinIds : FinishCancel(p)
    \/ \E p \in FinIds : WaitFinish(p)
    \/ \E p \in FinIds : WaitTimeout(p)
    \/ \E p \in FinIds : FinishRemove(p)

\* the task tree without callbacks, with Subtask also called on finished tasks
TNextOn ==
    \/ \E p \in {Root} \cup TaskIds, nf \in BOOLEAN : Subtask(p, nf)
    \/ \E p \in TaskIds, nf \in BOOLEAN : SubtaskLate(p, nf)
    \/ \E p \in Threads, t \in TaskIds, r \in Reasons, w \in BOOLEAN : FinishBegin(p, t, r, w)
    \/ \E t \in TaskIds : AutoFinish(t)
    \/ \E p \in FinIds : FinishCancel(p)
    \/ \E p \in FinIds : WaitFinish(p)
    \/ \E p \in FinIds : WaitTimeout(p)
    \/ \E p \in FinIds : FinishRemove(p)

\* the AfterFunc goroutines and the goroutines inside finish are scheduled, and
\* the timer of waitFinish fires
TFair ==
    /\ \A t \in TaskIds : WF_vars(AutoFinish(t))
    /\ \A p \in FinIds :
          /\ WF_vars(FinishCancel(p))
          /\ WF_vars(WaitTimeout(p))
          /\ WF_vars(FinishRemove(p))

(***************************************************************************)
(* Task values (src/task/task.go, SetValue and GetValue).  Only the parent *)
(* pointers of the tree matter here.                                       *)
(***************************************************************************)
VTasks == 1..NumVTasks

VKeys == 1..NumVKeys

NotCreated == 0 - 1

\* values.Load(key) found nothing
Unset == 0 - 1

\* the nil any; SetValue may store it like any other value
NilValue == 0

Values == NilValue..NumVals

VIdle == [pc |-> "idle", task |-> Root, cur |-> Root, key |-> 0, res |-> NilValue,
          overlap |-> FALSE]

VInit ==
    /\ vpar = [t \in VTasks |-> NotCreated]
    /\ vals = [t \in VTasks |-> [k \in VKeys |-> Unset]]
    /\ vget = VIdle

\* RootTask (p = Root) and t.Subtask: the new task's parent is p
VSubtask(p) ==
    \E t \in VTasks :
        /\ vpar[t] = NotCreated
        /\ \A u \in VTasks : u < t => vpar[u] # NotCreated
        /\ p = Root \/ (p \in VTasks /\ vpar[p] # NotCreated)
        /\ vpar' = [vpar EXCEPT ![t] = p]
        /\ UNCHANGED <<vals, vget>>
        /\ UNCHANGED notValues

\* SetValue: the map is made on first use, then values.Store(key, value); a
\* GetValue for the key that is under way is marked as overlapped
SetValue(t, k, v) ==
    /\ vpar[t] # NotCreated
    /\ vals[t][k] # v
    /\ vals' = [vals EXCEPT ![t][k] = v]
    /\ vget' = IF vget.pc = "walk" /\ vget.key = k
               THEN [vget EXCEPT !.overlap = TRUE] ELSE vget
    /\ UNCHANGED vpar
    /\ UNCHANGED notValues

\* a GetValue that never looks at the task's own map
LoadNothing(t, k) == Unset

\* t.values.Load() and values.Load(key): Unset when there is no map or no key
LoadValue(t, k) == vals[t][k]

\* GetValue(key) is called on t
GetValue(t, k) ==
    /\ vget.pc \in {"idle", "done"}
    /\ vpar[t] # NotCreated
    /\ vget' = [VIdle EXCEPT !.pc = "walk", !.task = t, !.cur = t, !.key = k]
    /\ UNCHANGED <<vpar, vals>>
    /\ UNCHANGED notValues

\* GetValue on the current task of the walk: return the value found, or go on
\* with t.parent.GetValue(key) unless the parent is the root, or return nil
GetValueStep ==
    /\ vget.pc = "walk"
    /\ LET v == LoadValue(vget.cur, vget.key)
       IN vget' = IF v # Unset
                  THEN [vget EXCEPT !.pc = "done", !.res = v]
                  ELSE IF vpar[vget.cur] # Root
                       THEN [vget EXCEPT !.cur = vpar[vget.cur]]
                       ELSE [vget EXCEPT !.pc = "done", !.res = NilValue]
    /\ UNCHANGED <<vpar, vals>>
    /\ UNCHANGED notValues

VNext ==
    \/ \E p \in {Root} \cup VTasks : VSubtask(p)
    \/ \E t \in VTasks, k \in VKeys, v \in Values : SetValue(t, k, v)
    \/ \E t \in VTasks, k \in VKeys : GetValue(t, k)
    \/ GetValueStep

(***************************************************************************)
(* Dependencies (src/task/dependencies.go) step by step: every call on the *)
(* map, the counter and the done pointer is an atomic step of its own.     *)
(* Each element is added once and deleted, at most once, after its Add     *)
(* has returned, which is how Task uses the set.                           *)
(***************************************************************************)
Deps == 1..NumDeps

\* w.done holds nil
NilChan == 0

DIdle == [pc |-> "idle", op |-> "none", ele |-> 0, done |-> NilChan, res |-> "none"]

DInit ==
    /\ dm = {}
    /\ dcount = 0
    /\ ddone = NilChan
    /\ dchans = <<>>
    /\ dth = [t \in Threads |-> DIdle]
    /\ dadded = {}
    /\ ddeleted = {}
    /\ dctx = FALSE

\* goroutine t is between two calls, and no close has panicked
DFree(t) == dth[t].pc \in {"idle", "done"} /\ \A c \in DOMAIN dchans : dchans[c] < 2

\* goroutine t is at pc, and no close has panicked
DAt(t, pc) == dth[t].pc = pc /\ \A c \in DOMAIN dchans : dchans[c] < 2

\* the elements whose Add has returned
DAddReturned == {x \in dadded : \A t \in Threads : ~(dth[t].op = "add" /\ dth[t].ele = x /\ dth[t].pc # "done")}

\* Add, line 24: w.m.Store(ele, struct{}{})
DAdd(t, x) ==
    /\ DFree(t)
    /\ x \notin dadded
    /\ dadded' = dadded \cup {x}
    /\ dm' = dm \cup {x}
    /\ dth' = [dth EXCEPT ![t] = [DIdle EXCEPT !.pc = "addCount", !.op = "add", !.ele = x]]
    /\ UNCHANGED <<dcount, ddone, dchans, ddeleted, dctx>>
    /\ UNCHANGED notDeps

\* Add, line 25: w.count.Add(1) == 1
DAddCount(t) ==
    /\ DAt(t, "addCount")
    /\ dcount' = dcount + 1
    /\ dth' = [dth EXCEPT ![t].pc = IF dcount + 1 = 1 THEN "addStore" ELSE "done"]
    /\ UNCHANGED <<dm, ddone, dchans, dadded, ddeleted, dctx>>
    /\ UNCHANGED notDeps

\* Add, lines 27-28: ch := make(chan struct{}); w.done.Store(&ch)
DAddStore(t) ==
    /\ DAt(t, "addStore")
    /\ dchans' = Append(dchans, 0)
    /\ ddone' = Len(dchans) + 1
    /\ dth' = [dth EXCEPT ![t].pc = "done"]
    /\ UNCHANGED <<dm, dcount, dadded, ddeleted, dctx>>
    /\ UNCHANGED notDeps

\* Delete, line 33: w.m.LoadAndDelete(ele)
DDelete(t, x) ==
    /\ DFree(t)
    /\ x \in DAddReturned
    /\ x \notin ddeleted
    /\ ddeleted' = ddeleted \cup {x}
    /\ dm' = dm \ {x}
    /\ dth' = [dth EXCEPT ![t] = [DIdle EXCEPT !.pc = IF x \in dm THEN "delCount" ELSE "done",
                                               !.op = "delete", !.ele = x]]
    /\ UNCHANGED <<dcount, ddone, dchans, dadded, dctx>>
    /\ UNCHANGED notDeps

\* Delete, line 34: w.count.Add(-1) == 0
DDelCount(t) ==
    /\ DAt(t, "delCount")
    /\ dcount' = dcount - 1
    /\ dth' = [dth EXCEPT ![t].pc = IF dcount - 1 = 0 THEN "delLoad" ELSE "done"]
    /\ UNCHANGED <<dm, ddone, dchans, dadded, ddeleted, dctx>>
    /\ UNCHANGED notDeps

\* Delete, lines 36-37: done := w.done.Load(); if done != nil
DDelLoad(t) ==
    /\ DAt(t, "delLoad")
    /\ dth' = [dth EXCEPT ![t].done = ddone,
                          ![t].pc = IF ddone = NilChan THEN "done" ELSE "delClose"]
    /\ UNCHANGED <<dm, dcount, ddone, dchans, dadded, ddeleted, dctx>>
    /\ UNCHANGED notDeps

\* Delete, line 38: close(*done); the close of a closed channel panics
DDelClose(t) ==
    /\ DAt(t, "delClose")
    /\ dchans' = [dchans EXCEPT ![dth[t].done] = @ + 1]
    /\ dth' = [dth EXCEPT ![t].pc = IF dchans[dth[t].done] = 0 THEN "done" ELSE "panic"]
    /\ UNCHANGED <<dm, dcount, ddone, dadded, ddeleted, dctx>>
    /\ UNCHANGED notDeps

\* Wait, lines 45-46: done := w.done.Load(); if done == nil
DWait(t) ==
    /\ DFree(t)
    /\ dth' = [dth EXCEPT ![t] = [DIdle EXCEPT !.op = "wait", !.done = ddone,
                                               !.pc = IF ddone = NilChan THEN "waitNil"
                                                      ELSE "waitSelect"]]
    /\ UNCHANGED <<dm, dcount, ddone, dchans, dadded, ddeleted, dctx>>
    /\ UNCHANGED notDeps

\* Wait, lines 47-51: the count check, w.m.Clear() and return nil when no channel
\* was ever made
DWaitNil(t) ==
    /\ DAt(t, "waitNil")
    /\ IF dcount # 0
       THEN /\ dth' = [dth EXCEPT ![t].pc = "done", ![t].res = "bug: count != 0"]
            /\ UNCHANGED dm
       ELSE /\ dth' = [dth EXCEPT ![t].pc = "done", ![t].res = "nil"]
            /\ dm' = {}
    /\ UNCHANGED <<dcount, ddone, dchans, dadded, ddeleted, dctx>>
    /\ UNCHANGED notDeps

\* Wait, lines 54-56 and 65-66: the select; a closed channel leads to w.m.Clear(),
\* a done context to the return of ctx.Err()
DWaitSelect(t, onDone) ==
    /\ DAt(t, "waitSelect")
    /\ IF onDone
       THEN /\ dchans[dth[t].done] >= 1
            /\ dm' = {}
            /\ dth' = [dth EXCEPT ![t].pc = "waitCheck"]
       ELSE /\ dctx
            /\ dth' = [dth EXCEPT ![t].pc = "done", ![t].res = "ctx"]
            /\ UNCHANGED dm
    /\ UNCHANGED <<dcount, ddone, dchans, dadded, ddeleted, dctx>>
    /\ UNCHANGED notDeps

\* Wait, lines 57-64: count := w.count.Load() and the three returns
DWaitCheck(t) ==
    /\ DAt(t, "waitCheck")
    /\ dth' = [dth EXCEPT ![t].pc = "done",
                          ![t].res = IF dcount > 0 THEN "bug: new dependencies added after Wait"
                                     ELSE IF dcount < 0 THEN "bug: count < 0"
                                     ELSE "nil"]
    /\ UNCHANGED <<dm, dcount, ddone, dchans, dadded, ddeleted, dctx>>
    /\ UNCHANGED notDeps

\* the context given to Wait is cancelled or times out
DCancel ==
    /\ ~dctx
    /\ dctx' = TRUE
    /\ UNCHANGED <<dm, dcount, ddone, dchans, dth, dadded, ddeleted>>
    /\ UNCHANGED notDeps

DNext ==
    \/ \E t \in Threads, x \in Deps : DAdd(t, x)
    \/ \E t \in Threads : DAddCount(t)
    \/ \E t \in Threads : DAddStore(t)
    \/ \E t \in Threads, x \in Deps : DDelete(t, x)
    \/ \E t \in Threads : DDelCount(t)
    \/ \E t \in Threads : DDelLoad(t)
    \/ \E t \in Threads : DDelClose(t)
    \/ \E t \in Threads : DWait(t)
    \/ \E t \in Threads : DWaitNil(t)
    \/ \E t \in Threads, onDone \in BOOLEAN : DWaitSelect(t, onDone)
    \/ \E t \in Threads : DWaitCheck(t)
    \/ DCancel

(***************************************************************************)
(* Byte-buffer pools (src/synk/pool.go).  A buffer is a slice header: the  *)
(* allocation it points into (blk), its pointer as an offset into that     *)
(* allocation (off), and its cap; len is kept for the buffers handed out.  *)
(***************************************************************************)
kb == 1024

MinAllocSize == 4 * kb

UnsizedPoolSize == (16 * kb * kb) \div MinAllocSize

SizedPools == 11

LargePoolChannelSize == 16

RECURSIVE Pow2(_)
Pow2(n) == IF n = 0 THEN 1 ELSE 2 * Pow2(n - 1)

Max2(a, b) == IF a >= b THEN a ELSE b

Min2(a, b) == IF a <= b THEN a ELSE b

poolChannelSize(idx) == Max2(8, 256 \div Pow2(idx))

allocSize(idx) == 1024 * (2 * Pow2(idx))

\* sizedBytesPool.min and sizedBytesPool.max as set by initAll
PoolMin == allocSize(0)

PoolMax == allocSize(SizedPools - 1)

\* bits.Len
RECURSIVE BitsLen(_)
BitsLen(x) == IF x = 0 THEN 0 ELSE 1 + BitsLen(x \div 2)

poolIdx(size) ==
    IF size <= 0 THEN 0 ELSE Min2(SizedPools - 1, Max2(0, BitsLen(size - 1) - 11))

\* the sizes asked of GetSized
Sizes == {0 - 1, 0, 2047, PoolMin, 4096, 6144, 8192, PoolMax + 1}

SInit ==
    /\ synk = [pools |-> [i \in 0..(SizedPools - 1) |-> <<>>], largePool |-> <<>>,
               unsizedPool |-> <<>>, sizedFullCaps |-> {}]
    /\ held = {}
    /\ nBlk = 0
    /\ nOps = 0
    /\ got = [size |-> 0 - 1, len |-> 0, cap |-> 0, path |-> "none"]

\* the slice header of a buffer handed out
Header(b) == [blk |-> b.blk, off |-> b.off, cap |-> b.cap]

\* make([]byte, _, c): a new allocation
Make(c) == [blk |-> nBlk + 1, off |-> 0, cap |-> c]

\* restoreFullCap: the cap recorded for b's pointer, if any, replaces b's cap
FullCapOf(fc, b) == {e \in fc : e.blk = b.blk /\ e.off = b.off}

restoreFullCap(st, b) ==
    IF FullCapOf(st.sizedFullCaps, b) = {}
    THEN [buf |-> b, st |-> st]
    ELSE [buf |-> [b EXCEPT !.cap = (CHOOSE e \in FullCapOf(st.sizedFullCaps, b) : TRUE).cap],
          st |-> [st EXCEPT !.sizedFullCaps = @ \ FullCapOf(st.sizedFullCaps, b)]]

\* storeFullCap(b, c)
storeFullCap(st, b, c) ==
    IF c <= 0 \/ c = b.cap
    THEN st
    ELSE [st EXCEPT !.sizedFullCaps =
             (@ \ FullCapOf(@, b)) \cup {[blk |-> b.blk, off |-> b.off, cap |-> c]}]

\* the package-level put: a weak pointer to b[:0] is sent unless the channel is full
Send(q, b, size) ==
    IF Len(q) < size THEN Append(q, [blk |-> b.blk, off |-> b.off, cap |-> b.cap, alive |-> TRUE])
    ELSE q

\* UnsizedBytesPool.Put
UnsizedPut(st, b) ==
    LET r == restoreFullCap(st, b)
    IN [r.st EXCEPT !.unsizedPool = Send(@, r.buf, UnsizedPoolSize)]

\* every buffer put in the smallest tier
SmallestTier(c) == 0

\* poolIdx alone, without the step back to the tier below
NoStepBack(c) == poolIdx(c)

\* the tier a buffer of cap c is put in: the largest tier whose allocSize is <= c
PutIdx(c) == IF c < allocSize(poolIdx(c)) THEN poolIdx(c) - 1 ELSE poolIdx(c)

\* SizedBytesPool.put
SizedPut(st, b) ==
    LET r == restoreFullCap(st, b)
        c == r.buf.cap
    IN IF c < PoolMin
       THEN [r.st EXCEPT !.unsizedPool = Send(@, r.buf, UnsizedPoolSize)]
       ELSE IF c <= PoolMax
       THEN [r.st EXCEPT !.pools[PutIdx(c)] = Send(@, r.buf, poolChannelSize(PutIdx(c)))]
       ELSE [r.st EXCEPT !.largePool = Send(@, r.buf, LargePoolChannelSize)]

\* a receive that takes whatever heads the channel, reclaimed or not
TakeHead(q) == q

\* receiving until getBufFromWeak is not nil, or the channel is empty
RECURSIVE DropDead(_)
DropDead(q) == IF q # <<>> /\ ~Head(q).alive THEN DropDead(Tail(q)) ELSE q

\* UnsizedBytesPool.Get
UnsizedGet(st) ==
    LET q == DropDead(st.unsizedPool)
    IN IF q # <<>>
       THEN [buf |-> Header(Head(q)), st |-> [st EXCEPT !.unsizedPool = Tail(q)], fresh |-> FALSE]
       ELSE [buf |-> Make(MinAllocSize), st |-> [st EXCEPT !.unsizedPool = q], fresh |-> TRUE]

\* GetSized, size > p.max
LargeGet(st, size) ==
    LET q == DropDead(st.largePool)
    IN IF q = <<>>
       THEN [buf |-> Make(size), st |-> [st EXCEPT !.largePool = q], fresh |-> TRUE]
       ELSE IF Head(q).cap < size
       THEN [buf |-> Make(size), st |-> [st EXCEPT !.largePool = Tail(q)], fresh |-> TRUE]
       ELSE [buf |-> Header(Head(q)), st |-> [st EXCEPT !.largePool = Tail(q)], fresh |-> FALSE]

\* a remainder that starts where b starts
RemainingAtStart(b, size) == [blk |-> b.blk, off |-> b.off, cap |-> b.cap - size]

\* b[size:]
Remaining(b, size) == [blk |-> b.blk, off |-> b.off + size, cap |-> b.cap - size]

\* GetSized, p.min <= size <= p.max: the first tier from poolIdx(size) up that
\* yields a buffer; SizedPools when none does
FirstTier(st, size) ==
    LET live == {i \in poolIdx(size)..(SizedPools - 1) : DropDead(st.pools[i]) # <<>>}
    IN IF live = {} THEN SizedPools ELSE CHOOSE i \in live : \A j \in live : i <= j

TierGet(st, size) ==
    LET idx == FirstTier(st, size)
        scanned == [st EXCEPT !.pools =
                       [i \in 0..(SizedPools - 1) |->
                           IF i >= poolIdx(size) /\ i <= idx THEN DropDead(st.pools[i])
                           ELSE st.pools[i]]]
    IN IF idx = SizedPools
       THEN [buf |-> Make(allocSize(poolIdx(size))), st |-> scanned, fresh |-> TRUE]
       ELSE LET b == Header(Head(scanned.pools[idx]))
                taken == [scanned EXCEPT !.pools[idx] = Tail(@)]
                rest == Remaining(b, size)
                front == [b EXCEPT !.cap = size]
            IN IF b.cap - size > PoolMin
               THEN [buf |-> front, st |-> storeFullCap(SizedPut(taken, rest), front, b.cap),
                     fresh |-> FALSE]
               ELSE [buf |-> b, st |-> taken, fresh |-> FALSE]

\* a Get or GetSized returns r.buf with length len to its caller
Hand(r, len) ==
    /\ r.fresh => nBlk < MaxBlocks
    /\ nBlk' = IF r.fresh THEN nBlk + 1 ELSE nBlk
    /\ synk' = r.st
    /\ held' = held \cup {[blk |-> r.buf.blk, off |-> r.buf.off, len |-> len, cap |-> r.buf.cap]}

\* the path of GetSized that serves size, and what it yields
Path(size) ==
    IF size < PoolMin THEN "unsized"
    ELSE IF size > PoolMax THEN "large"
    ELSE IF FirstTier(synk, size) = SizedPools THEN "alloc"
    ELSE IF TierGet(synk, size).st.sizedFullCaps # synk.sizedFullCaps THEN "split"
    ELSE "tier"

Serve(size) ==
    IF size < PoolMin THEN UnsizedGet(synk)
    ELSE IF size > PoolMax THEN LargeGet(synk, size)
    ELSE TierGet(synk, size)

\* GetSized: every path returns the buffer it found with its length set to size
GetSized(size) ==
    /\ nOps < MaxOps
    /\ nOps' = nOps + 1
    /\ Hand(Serve(size), size)
    /\ got' = [size |-> size, len |-> size, cap |-> Serve(size).buf.cap, path |-> Path(size)]
    /\ UNCHANGED notSynk

\* UnsizedBytesPool.Get
Get ==
    /\ nOps < MaxOps
    /\ nOps' = nOps + 1
    /\ Hand(UnsizedGet(synk), 0)
    /\ UNCHANGED got
    /\ UNCHANGED notSynk

\* SizedBytesPool.Put (sized = TRUE) or UnsizedBytesPool.Put of a buffer its caller holds
Put(sized) ==
    \E b \in held :
        /\ nOps < MaxOps
        /\ nOps' = nOps + 1
        /\ held' = held \ {b}
        /\ synk' = IF sized THEN SizedPut(synk, Header(b)) ELSE UnsizedPut(synk, Header(b))
        /\ UNCHANGED <<nBlk, got>>
        /\ UNCHANGED notSynk

\* the runtime reclaims the slice header a queue entry points to weakly
KillAt(q, i) == [q EXCEPT ![i].alive = FALSE]

Reclaim ==
    /\ \/ \E t \in 0..(SizedPools - 1) : \E i \in 1..Len(synk.pools[t]) :
             synk.pools[t][i].alive /\ synk' = [synk EXCEPT !.pools[t] = KillAt(@, i)]
       \/ \E i \in 1..Len(synk.largePool) :
             synk.largePool[i].alive /\ synk' = [synk EXCEPT !.largePool = KillAt(@, i)]
       \/ \E i \in 1..Len(synk.unsizedPool) :
             synk.unsizedPool[i].alive /\ synk' = [synk EXCEPT !.unsizedPool = KillAt(@, i)]
    /\ UNCHANGED <<held, nBlk, nOps, got>>
    /\ UNCHANGED notSynk

SNext ==
    \/ \E size \in Sizes : GetSized(size)
    \/ Get
    \/ \E sized \in BOOLEAN : Put(sized)
    \/ Reclaim

\* the sized pool used alone: GetSized and SizedBytesPool.Put
SNextSized ==
    \/ \E size \in Sizes : GetSized(size)
    \/ \E sized \in {TRUE} : Put(sized)
    \/ Reclaim

(***************************************************************************)
(* Object pool with tombstones (src/pool/pool.go).  The clock counts       *)
(* seconds, so recentlyRemovedTTL is one tick.                             *)
(***************************************************************************)
recentlyRemovedTTL == 1

tombPurgeThreshold == 256

PKeys == 1..NumPKeys

Objs == 1..NumObjs

\* the zero value of T
NoObj == 0

\* obj.Key(): the first three objects share key 1
ObjKey(o) == IF o <= 3 THEN 1 ELSE 2 + (o % (NumPKeys - 1))

\* objects 2 and 3 implement Preferable; PreferOver prefers the higher one
Preferable(o) == o \in {2, 3}

PreferOver(new, old) == new > old

Absent == [st |-> "absent", obj |-> NoObj, removedAt |-> 0]

\* entry[T]{obj: obj}
Live(o) == [st |-> "live", obj |-> o, removedAt |-> 0]

\* entry[T]{removed: info, tomb: true}
Tomb(at) == [st |-> "tomb", obj |-> NoObj, removedAt |-> at]

\* now.Sub(cur.removed.removedAt) < recentlyRemovedTTL
Recent(at, e) == at - e.removedAt < recentlyRemovedTTL

\* what a Load shows to a caller whose time.Now() was at
Seen(at, e) ==
    IF e.st = "tomb" THEN (IF Recent(at, e) THEN "recent" ELSE "expired") ELSE e.st

\* p.tombs is a uint32 held as its two's-complement reading: a negative n stands
\* for 2^32 + n; p.tombs.Add(^uint32(0)) decrements it
TombsDec(n) == n - 1

OverThreshold(n) == n < 0 \/ n > tombPurgeThreshold

\* no call under way; actual and added hold the (T, bool) a call returned, action
\* what logAction was given, out/yield/panicked the outcome of Slice and Iter, and
\* todo/key/v/purged the locals of PurgeExpiredTombs
PIdle ==
    [pc |-> "idle", op |-> "none", obj |-> NoObj, now |-> 0, saw |-> "absent",
     sawObj |-> NoObj, actual |-> NoObj, added |-> FALSE, after |-> Absent,
     action |-> "none", out |-> <<>>, yield |-> {}, panicked |-> FALSE,
     todo |-> {}, key |-> 0, v |-> Absent, purged |-> 0]

PInit ==
    /\ pm = [k \in PKeys |-> Absent]
    /\ ptombs = 0
    /\ pnow = 0
    /\ pth = [t \in Threads |-> PIdle]
    /\ pOps = 0

\* a caller starts an operation on obj: time.Now() and the first p.m.Load(key)
Start(t, op, o, pc) ==
    /\ pth[t].pc \in {"idle", "done"}
    /\ pOps < MaxPoolOps
    /\ pOps' = pOps + 1
    /\ pth' = [pth EXCEPT ![t] =
                  [PIdle EXCEPT !.pc = pc, !.op = op, !.obj = o, !.now = pnow,
                                !.saw = Seen(pnow, pm[ObjKey(o)]),
                                !.sawObj = pm[ObjKey(o)].obj,
                                !.after = pm[ObjKey(o)]]]

\* an AddKey that replaces only on a true PreferOver
KeepUnlessPreferred(cur, o) == cur.st = "live" /\ ~(Preferable(o) /\ PreferOver(o, cur.obj))

\* AddKey keeps the existing entry
KeepExisting(cur, o) == cur.st = "live" /\ Preferable(o) /\ ~PreferOver(o, cur.obj)

\* Add(obj) = AddKey(obj.Key(), obj): the first Load and the Preferable check
AddKey(t, o) ==
    /\ Start(t, "add", o, IF KeepExisting(pm[ObjKey(o)], o) THEN "done" ELSE "addTomb")
    /\ UNCHANGED <<pm, ptombs, pnow>>
    /\ UNCHANGED notPool

\* an AddKey that logs "reloaded" for every tombstone
ActionAnyTomb(at, cur) == IF cur.st = "tomb" THEN "reloaded" ELSE "added"

\* AddKey: the action it logs, "reloaded" over a tombstone younger than the TTL
Action(at, cur) == IF cur.st = "tomb" /\ Recent(at, cur) THEN "reloaded" ELSE "added"

\* AddKey: the second Load; a tombstone decrements the counter
AddKeyTomb(t) ==
    /\ pth[t].pc = "addTomb"
    /\ ptombs' = IF pm[ObjKey(pth[t].obj)].st = "tomb" THEN TombsDec(ptombs) ELSE ptombs
    /\ pth' = [pth EXCEPT ![t].pc = "addStore",
                          ![t].action = Action(pth[t].now, pm[ObjKey(pth[t].obj)])]
    /\ UNCHANGED <<pm, pnow, pOps>>
    /\ UNCHANGED notPool

\* an AddKey that returns without the Store
AddKeyNoStore(t) ==
    /\ pth[t].pc = "addStore"
    /\ pth' = [pth EXCEPT ![t].pc = "done"]
    /\ UNCHANGED <<pm, ptombs, pnow, pOps>>
    /\ UNCHANGED notPool

\* AddKey: p.m.Store(key, entry[T]{obj: obj})
AddKeyStore(t) ==
    /\ pth[t].pc = "addStore"
    /\ pm' = [pm EXCEPT ![ObjKey(pth[t].obj)] = Live(pth[t].obj)]
    /\ pth' = [pth EXCEPT ![t].pc = "done", ![t].after = Live(pth[t].obj)]
    /\ UNCHANGED <<ptombs, pnow, pOps>>
    /\ UNCHANGED notPool

\* AddIfNotExists: the Load and what follows it up to the Store
AddIfNotExists(t, o) ==
    LET cur == pm[ObjKey(o)]
        saw == Seen(pnow, cur)
    IN /\ Start(t, "addIfNotExists", o, IF saw \in {"absent", "recent"} THEN "ineStore" ELSE "done")
       /\ ptombs' = IF saw = "recent" THEN TombsDec(ptombs) ELSE ptombs
       /\ UNCHANGED <<pm, pnow>>
       /\ UNCHANGED notPool

\* AddIfNotExists: p.m.Store(key, entry[T]{obj: obj}); return obj, true
AddIfNotExistsStore(t) ==
    /\ pth[t].pc = "ineStore"
    /\ pm' = [pm EXCEPT ![ObjKey(pth[t].obj)] = Live(pth[t].obj)]
    /\ pth' = [pth EXCEPT ![t].pc = "done", ![t].actual = pth[t].obj, ![t].added = TRUE,
                          ![t].after = Live(pth[t].obj)]
    /\ UNCHANGED <<ptombs, pnow, pOps>>
    /\ UNCHANGED notPool

\* Del(obj) = delKey(obj.Key()): the Load, and time.Now() for removedAt
delKey(t, o) ==
    /\ Start(t, "del", o, IF pm[ObjKey(o)].st = "live" THEN "delStore" ELSE "done")
    /\ UNCHANGED <<pm, ptombs, pnow>>
    /\ UNCHANGED notPool

\* PurgeExpiredTombs: every tombstone of age >= TTL is deleted and counted off
Expired(mm, at) == {k \in PKeys : mm[k].st = "tomb" /\ ~Recent(at, mm[k])}

Purged(mm, at) == [k \in PKeys |-> IF k \in Expired(mm, at) THEN Absent ELSE mm[k]]

\* delKey: Store of the tombstone, p.tombs.Add(1), and the purge over the threshold
delKeyStore(t) ==
    /\ pth[t].pc = "delStore"
    /\ LET mm == [pm EXCEPT ![ObjKey(pth[t].obj)] = Tomb(pth[t].now)]
       IN IF OverThreshold(ptombs + 1)
          THEN /\ pm' = Purged(mm, pnow)
               /\ ptombs' = ptombs + 1 - Cardinality(Expired(mm, pnow))
          ELSE /\ pm' = mm
               /\ ptombs' = ptombs + 1
    /\ pth' = [pth EXCEPT ![t].pc = "done", ![t].after = pm'[ObjKey(pth[t].obj)]]
    /\ UNCHANGED <<pnow, pOps>>
    /\ UNCHANGED notPool

\* what Get returns for an entry: the object and true for a live one only
GetResult(e) ==
    IF e.st = "live" THEN [obj |-> e.obj, ok |-> TRUE] ELSE [obj |-> NoObj, ok |-> FALSE]

\* Get(obj.Key())
PoolGet(t, o) ==
    /\ pth[t].pc \in {"idle", "done"}
    /\ pOps < MaxPoolOps
    /\ pOps' = pOps + 1
    /\ pth' = [pth EXCEPT ![t] =
                  [PIdle EXCEPT !.pc = "done", !.op = "get", !.obj = o, !.now = pnow,
                                !.saw = Seen(pnow, pm[ObjKey(o)]),
                                !.sawObj = pm[ObjKey(o)].obj,
                                !.after = pm[ObjKey(o)],
                                !.actual = GetResult(pm[ObjKey(o)]).obj,
                                !.added = GetResult(pm[ObjKey(o)]).ok]]
    /\ UNCHANGED <<pm, ptombs, pnow>>
    /\ UNCHANGED notPool

\* Clear: p.m.Clear()
Clear ==
    /\ pOps < MaxPoolOps
    /\ pOps' = pOps + 1
    /\ pm' = [k \in PKeys |-> Absent]
    /\ UNCHANGED <<ptombs, pnow, pth>>
    /\ UNCHANGED notPool

\* obj.Name(): the names run against the keys
ObjName(o) == NumObjs + 1 - o

\* p.m.Size(): the entries, tombstones included
MapSize(mm) == Cardinality({k \in PKeys : mm[k].st # "absent"})

LiveObjs(mm) == {mm[k].obj : k \in {j \in PKeys : mm[j].st = "live"}}

\* sort.Slice by Name()
RECURSIVE SortByName(_)
SortByName(S) ==
    IF S = {}
    THEN <<>>
    ELSE LET m == CHOOSE x \in S : \A y \in S : ObjName(x) <= ObjName(y)
         IN <<m>> \o SortByName(S \ {m})

\* make([]T, 0, p.m.Size()-int(p.tombs.Load())) panics on a negative cap; a negative
\* n stands for the uint32 2^32 + n, above every map size
SlicePanics(mm, n) == n < 0 \/ MapSize(mm) - n < 0

\* Slice: the make, then the live objects sorted by name
Slice(t) ==
    /\ pth[t].pc \in {"idle", "done"}
    /\ pth' = [pth EXCEPT ![t] =
                  [PIdle EXCEPT !.pc = "done", !.op = "slice",
                                !.panicked = SlicePanics(pm, ptombs),
                                !.out = IF SlicePanics(pm, ptombs) THEN <<>>
                                        ELSE SortByName(LiveObjs(pm))]]
    /\ UNCHANGED <<pm, ptombs, pnow, pOps>>
    /\ UNCHANGED notPool

\* Iter with a callback that returns true: the keys it yields
Iter(t) ==
    /\ pth[t].pc \in {"idle", "done"}
    /\ pth' = [pth EXCEPT ![t] =
                  [PIdle EXCEPT !.pc = "done", !.op = "iter",
                                !.yield = {k \in PKeys : pm[k].st = "live"}]]
    /\ UNCHANGED <<pm, ptombs, pnow, pOps>>
    /\ UNCHANGED notPool

\* PurgeExpiredTombs is called: time.Now(), then the range over p.m
PurgeExpiredTombs(t) ==
    /\ pth[t].pc \in {"idle", "done"}
    /\ pth' = [pth EXCEPT ![t] =
                  [PIdle EXCEPT !.pc = "purgeRange", !.op = "purge", !.now = pnow,
                                !.todo = PKeys]]
    /\ UNCHANGED <<pm, ptombs, pnow, pOps>>
    /\ UNCHANGED notPool

\* the loop of PurgeExpiredTombs goes to the next key, or returns
Continue(r) ==
    [r EXCEPT !.todo = r.todo \ {r.key},
              !.pc = IF r.todo \ {r.key} = {} THEN "done" ELSE "purgeRange"]

\* the range yields the next entry: only a tombstone of age >= TTL goes on
PurgeRange(t) ==
    /\ pth[t].pc = "purgeRange"
    /\ LET k == CHOOSE x \in pth[t].todo : \A y \in pth[t].todo : x <= y
           r == [pth[t] EXCEPT !.key = k, !.v = pm[k]]
       IN pth' = [pth EXCEPT ![t] =
                     IF pm[k].st # "tomb" \/ Recent(pth[t].now, pm[k])
                     THEN Continue(r)
                     ELSE [r EXCEPT !.pc = "purgeLoad"]]
    /\ UNCHANGED <<pm, ptombs, pnow, pOps>>
    /\ UNCHANGED notPool

\* the Load that verifies the tombstone: still a tombstone with the same removedAt
PurgeLoad(t) ==
    /\ pth[t].pc = "purgeLoad"
    /\ LET cur == pm[pth[t].key]
       IN pth' = [pth EXCEPT ![t] =
                     IF cur.st # "tomb" \/ cur.removedAt # pth[t].v.removedAt
                     THEN Continue(pth[t])
                     ELSE [pth[t] EXCEPT !.pc = "purgeDelete"]]
    /\ UNCHANGED <<pm, ptombs, pnow, pOps>>
    /\ UNCHANGED notPool

\* LoadAndDelete: an expired tombstone is counted off, anything else is put back
PurgeDelete(t) ==
    /\ pth[t].pc = "purgeDelete"
    /\ LET k == pth[t].key
           deleted == pm[k]
           expired == deleted.st = "tomb" /\ ~Recent(pth[t].now, deleted)
       IN /\ pm' = [pm EXCEPT ![k] = Absent]
          /\ ptombs' = IF expired THEN TombsDec(ptombs) ELSE ptombs
          /\ pth' = [pth EXCEPT ![t] =
                        IF deleted.st = "absent" THEN Continue(pth[t])
                        ELSE IF expired THEN Continue([pth[t] EXCEPT !.purged = @ + 1])
                        ELSE [pth[t] EXCEPT !.pc = "purgeStore", !.v = deleted]]
    /\ UNCHANGED <<pnow, pOps>>
    /\ UNCHANGED notPool

\* p.m.Store(k, deleted)
PurgeStore(t) ==
    /\ pth[t].pc = "purgeStore"
    /\ pm' = [pm EXCEPT ![pth[t].key] = pth[t].v]
    /\ pth' = [pth EXCEPT ![t] = Continue(pth[t])]
    /\ UNCHANGED <<ptombs, pnow, pOps>>
    /\ UNCHANGED notPool

PTick ==
    /\ pnow < MaxTime
    /\ pnow' = pnow + 1
    /\ UNCHANGED <<pm, ptombs, pth, pOps>>
    /\ UNCHANGED notPool

PNext ==
    \/ \E t \in Threads, o \in Objs : AddKey(t, o)
    \/ \E t \in Threads : AddKeyTomb(t)
    \/ \E t \in Threads : AddKeyStore(t)
    \/ \E t \in Threads, o \in Objs : AddIfNotExists(t, o)
    \/ \E t \in Threads : AddIfNotExistsStore(t)
    \/ \E t \in Threads, o \in Objs : delKey(t, o)
    \/ \E t \in Threads : delKeyStore(t)
    \/ \E t \in Threads, o \in Objs : PoolGet(t, o)
    \/ Clear
    \/ PTick

\* Add and Del with Slice, Iter and PurgeExpiredTombs called from outside
PNextOn ==
    \/ \E t \in Threads, o \in Objs : AddKey(t, o)
    \/ \E t \in Threads : AddKeyTomb(t)
    \/ \E t \in Threads : AddKeyStore(t)
    \/ \E t \in Threads, o \in Objs : delKey(t, o)
    \/ \E t \in Threads : delKeyStore(t)
    \/ \E t \in Threads : Slice(t)
    \/ \E t \in Threads : Iter(t)
    \/ \E t \in Threads : PurgeExpiredTombs(t)
    \/ \E t \in Threads : PurgeRange(t)
    \/ \E t \in Threads : PurgeLoad(t)
    \/ \E t \in Threads : PurgeDelete(t)
    \/ \E t \in Threads : PurgeStore(t)
    \/ Clear
    \/ PTick

(***************************************************************************)
(* Specifications: one per subsystem.                                      *)
(***************************************************************************)
\* the other subsystems at rest
KRest == KInit /\ kcfg.maxEntries = 0 /\ kcfg.ttl = 0 /\ kcfg.retries = 0

FRest == FInit /\ fcfg.ttl = 0 /\ fcfg.retries = 0

InitKeyed == KInit /\ FRest /\ TInit /\ SInit /\ PInit /\ VInit /\ DInit

InitFunc == FInit /\ KRest /\ TInit /\ SInit /\ PInit /\ VInit /\ DInit

InitTask == TInit /\ KRest /\ FRest /\ SInit /\ PInit /\ VInit /\ DInit

InitSynk == SInit /\ KRest /\ FRest /\ TInit /\ PInit /\ VInit /\ DInit

InitPool == PInit /\ KRest /\ FRest /\ TInit /\ SInit /\ VInit /\ DInit

SpecKeyed == InitKeyed /\ [][KNext]_vars

InitKeyedOn == KInitOf(JanitorConfigs) /\ FRest /\ TInit /\ SInit /\ PInit /\ VInit /\ DInit

SpecKeyedOn == InitKeyedOn /\ [][KNextOn]_vars /\ KFair

SpecFunc == InitFunc /\ [][FNext]_vars

SpecTask == InitTask /\ [][TNext]_vars

SpecTaskOn == InitTask /\ [][TNextOn]_vars /\ TFair

SpecSynk == InitSynk /\ [][SNext]_vars

SpecSized == InitSynk /\ [][SNextSized]_vars

SpecPool == InitPool /\ [][PNext]_vars

SpecPoolOn == InitPool /\ [][PNextOn]_vars

InitValues == VInit /\ KRest /\ FRest /\ TInit /\ SInit /\ PInit /\ DInit

SpecValues == InitValues /\ [][VNext]_vars

InitDeps == DInit /\ KRest /\ FRest /\ TInit /\ SInit /\ PInit /\ VInit

SpecDeps == InitDeps /\ [][DNext]_vars

(***************************************************************************)
(* Properties.                                                             *)
(***************************************************************************)
\* C1: for every key, never two invocations of fn for the same key in progress
\* at the same time.
C1_KeyedSingleFlight ==
    \A t1, t2 \in Threads :
        (t1 # t2 /\ kth[t1].pc = "fn" /\ kth[t2].pc = "fn") => kth[t1].key # kth[t2].key

\* C5: with no ttl and no retries configured, fn is invoked at most once, and every
\* caller that entered before a result was cached and has returned, has returned
\* the result and the error of that one invocation.
C5_FuncSingleFlight ==
    (fcfg.ttl = 0 /\ fcfg.retries = 0) =>
        /\ fcount <= 1
        /\ \A t \in Threads :
              (fth[t].early /\ fret[t].returned) =>
                  (fst.cached = 1 /\ fret[t].val = 1 /\ fret[t].err = fst.err)

\* C2: on a needFinish task no OnFinished callback starts executing while a child
\* of the task is still in the task's children set.
C2_OnFinishedAfterChildren ==
    \A c \in CbIds : ~(cbs[c].wait /\ cbs[c].early)

\* C4: whenever a call of Finish or FinishAndWait on a task returns, every
\* descendant of the task created before the call is cancelled, and every one
\* that was cancelled together with the task reports the task's cause.
C4_FinishCancelsSubtree ==
    [][\A p \in FinIds :
          (fin[p].pc # "done" /\ fin'[p].pc = "done") =>
              \A d \in fin[p].snap :
                  /\ tasks'[d].cancelled
                  /\ tasks'[d].src = tasks'[fin[p].task].src =>
                         tasks'[d].cause = tasks'[fin[p].task].cause]_vars

\* no call of finish is in progress on t, and one was made
FinishDone(t) == tasks[t].finishCalled /\ \A p \in FinIds : fin[p].task # t

\* C6: whatever calls of Finish/FinishAndWait are made on a task, finish raises the
\* cancellation at most once, closes done at most once and removes the task from
\* its parent's children at most once, and exactly once each when the calls are
\* over; a callback registered before the cancellation is never invoked twice and
\* has been invoked once when the callbacks goroutine and its own are through.
C6_FinishIdempotent ==
    /\ \A t \in TaskIds :
          /\ tasks[t].cancels <= 1 /\ tasks[t].closes <= 1 /\ tasks[t].removes <= 1
          /\ FinishDone(t) =>
                /\ tasks[t].cancelled /\ tasks[t].cancels = 1 /\ tasks[t].removes = 1
                /\ tasks[t].needFinish => tasks[t].closes = 1
                /\ t \notin children[tasks[t].parent].m
    /\ \A c \in CbIds :
          cbs[c].pre =>
              /\ cbs[c].runs + cbs[c].pending <= 1
              /\ (tasks[cbs[c].task].afterPc = "finished" /\ cbs[c].pending = 0) =>
                    cbs[c].runs = 1
              /\ (~cbs[c].wait /\ tasks[cbs[c].task].afterPc = "waitdone"
                      /\ cbs[c].pending = 0) => cbs[c].runs = 1

\* a second call of finish waits on a needFinish task whose done was closed by the
\* first, after a callback registered before the cancellation ran
C6_Witness ==
    \E p \in FinIds, c \in CbIds :
        /\ fin[p].pc = "wait" /\ ~fin[p].first
        /\ tasks[fin[p].task].needFinish /\ tasks[fin[p].task].closes = 1
        /\ cbs[c].task = fin[p].task /\ cbs[c].pre /\ cbs[c].runs = 1

\* the bytes a slice header spans
Overlap(a, b) == a.blk = b.blk /\ a.off < b.off + b.cap /\ b.off < a.off + a.cap

\* the live entries of all channels, each tagged with its channel and position
Queued ==
    UNION {{<<t, i, synk.pools[t][i]>> : i \in {j \in 1..Len(synk.pools[t]) : synk.pools[t][j].alive}}
              : t \in 0..(SizedPools - 1)}
    \cup {<<SizedPools, i, synk.largePool[i]>> :
              i \in {j \in 1..Len(synk.largePool) : synk.largePool[j].alive}}
    \cup {<<SizedPools + 1, i, synk.unsizedPool[i]>> :
              i \in {j \in 1..Len(synk.unsizedPool) : synk.unsizedPool[j].alive}}

\* C3: no two buffers held by callers, no buffer held and live queue entry, and
\* no two live queue entries span a common byte.
C3_ExclusiveOwnership ==
    /\ \A a, b \in held : a # b => ~Overlap(a, b)
    /\ \A a \in held : \A q \in Queued : ~Overlap(a, q[3])
    /\ \A q1, q2 \in Queued : q1 # q2 => ~Overlap(q1[3], q2[3])

\* C7: the latest GetSized(size) returned a buffer of len size and cap >= size.
C7_GetSizedLenCap ==
    got.path # "none" => (got.len = got.size /\ got.cap >= got.size)

\* GetSized served a request from a tier by splitting a pooled buffer
C7_Witness ==
    got.path = "split" /\ got.size = PoolMin /\ got.cap = PoolMin

C9_NeverOverwritesLive ==
    [][\A t \in Threads :
          (pth[t].pc = "ineStore" /\ pth'[t].pc = "done")
              => pm[ObjKey(pth[t].obj)].st # "live"]_vars

\* C10: an AddIfNotExists that found a tombstone older than the TTL returns
\* (obj, true) and leaves obj stored under the key.
C10_ExpiredTombReplaced ==
    \A t \in Threads :
        (pth[t].pc = "done" /\ pth[t].op = "addIfNotExists" /\ pth[t].saw = "expired")
            => /\ pth[t].added
               /\ pth[t].actual = pth[t].obj
               /\ pth[t].after = Live(pth[t].obj)

\* C11: an AddIfNotExists that found a tombstone younger than the TTL returns
\* added = false and does not insert obj.
C11_RecentTombKept ==
    \A t \in Threads :
        (pth[t].pc = "done" /\ pth[t].op = "addIfNotExists" /\ pth[t].saw = "recent")
            => /\ ~pth[t].added
               /\ pth[t].after # Live(pth[t].obj)

\* C12: a cache hit makes its key the most recently used: when a call returns a
\* stored result while no other call is in progress and the entry is on the list,
\* the entry is at the front of the list.
C12_HitMovesToFront ==
    [][\A t \in Threads :
          (/\ kcfg.maxEntries > 0
           /\ kth[t].pc \in {"lock", "hit"} /\ kth[t].loaded /\ kth'[t].pc = "idle"
           /\ \A u \in Threads \ {t} : kth[u].pc = "idle"
           /\ InSeq(mru', kth[t].entry))
              => Head(mru') = kth[t].entry]_vars

\* C13: whenever the cache holds more than maxEntries entries, the janitor
\* eventually brings it back to at most maxEntries.
C13_JanitorRestoresBound ==
    (kcfg.maxEntries > 0 /\ EntriesSize > kcfg.maxEntries) ~> (EntriesSize <= kcfg.maxEntries)

\* C14: a call cancelled in its retry loop leaves nothing in the cache: the call
\* that returns next for the same key never returns, as a stored result, the
\* result of the invocation the cancelled call abandoned.
C14_CancelLeavesNoResult ==
    [][~(/\ lastRet.err = "cause"
         /\ lastRet'.hit
         /\ lastRet'.key = lastRet.key
         /\ lastRet'.val = lastRet.val)]_vars

\* C15: a cache miss invokes fn once more than fn failed (at most retries + 1
\* times): fn is invoked again only after it returned an error.
C15_RetryOnlyAfterFailure ==
    [][\A t \in Threads :
          (fth[t].pc = "retry" /\ fth'[t].pc = "fn") => fst.err = "fail"]_vars

\* C16: once a call has completed, a later call made before the ttl has elapsed
\* returns the value and the error of the completed call: a call entered after
\* a result was cached, which returns without invoking fn while no computation
\* is in progress, returns state.result and state.err.
C16_HitReturnsStored ==
    [][\A t \in Threads :
          (fst.cached = 1 /\ fmu = NoThread /\ ~fth[t].early
           /\ fth[t].pc \in {"check", "lock"} /\ fth'[t].pc = "idle")
              => fret'[t] = MakeRet(fst.result, fst.err)]_vars

\* C17 as stated: FinishCause() equals the first non-nil reason passed to
\* Finish/FinishAndWait: once the task is cancelled by its own finish, a call
\* that passes the non-nil reason leaves that reason as the cause.
C17_FirstNonNilReason ==
    [][\A p \in Threads, t \in TaskIds :
          (/\ \E w \in BOOLEAN : FinishBegin(p, t, "r1", w)
           /\ tasks[t].cancelled /\ tasks[t].src = t)
              => tasks'[t].cause = "r1"]_vars

\* C17 amended: the cause of a cancelled task never changes, and the call of
\* finish that cancels the task fixes the cause to its reason, a nil reason
\* giving context.Canceled.
C17_FirstCancelFixesCause ==
    [][\A t \in TaskIds :
          /\ tasks[t].cancelled => (tasks'[t].cancelled /\ tasks'[t].cause = tasks[t].cause)
          /\ \A p \in Threads :
                (/\ fin[p].pc = "cancel" /\ fin[p].task = t /\ fin'[p].pc # "cancel"
                 /\ ~tasks[t].cancelled)
                    => tasks'[t].cause = CancelCause(fin[p].reason)]_vars

C17_Witness ==
    \E t \in TaskIds, q \in Threads :
        /\ tasks[t].cause = "canceled" /\ tasks[t].src = t
        /\ fin[q].task = t /\ fin[q].pc = "wait" /\ ~fin[q].first

C19_NoChildAfterFinish ==
    [][\A p \in TaskIds : Finished(p) => children'[p].m \subseteq children[p].m]_vars

\* C20: a needFinish = false task whose context is cancelled through a task above
\* it is eventually finished and out of its parent's children set.
C20_AutoFinishRemoves ==
    \A t \in TaskIds :
        (tasks[t].created /\ ~tasks[t].needFinish /\ tasks[t].cancelled /\ tasks[t].src # t)
            ~> (tasks[t].finishCalled /\ t \notin children[tasks[t].parent].m)

C20_Witness ==
    \E t \in TaskIds :
        /\ tasks[t].created /\ ~tasks[t].needFinish /\ tasks[t].cancelled /\ tasks[t].src # t
        /\ tasks[t].parent # Root /\ ~tasks[t].born
        /\ tasks[t].auto /\ tasks[t].removes = 1
        /\ t \notin children[tasks[t].parent].m
        /\ \A p \in Threads : fin[p].task # t

\* C21: on a needFinish task whose OnCancel and OnFinished callbacks were all
\* registered before the cancellation, an OnFinished callback starts to execute only
\* when every OnCancel callback of that task has started to execute.
C21_OnCancelBeforeOnFinished ==
    [][\A c \in CbIds :
          (/\ cbs[c].reg /\ cbs[c].wait /\ cbs[c].pre
           /\ tasks[cbs[c].task].needFinish
           /\ cbs'[c].runs > cbs[c].runs) =>
              \A d \in CbIds :
                  (cbs[d].reg /\ cbs[d].task = cbs[c].task /\ ~cbs[d].wait /\ cbs[d].pre) =>
                      cbs[d].runs > 0]_vars

\* C23: a call of Finish (not FinishAndWait) is never blocked in waitFinish: it never
\* stands in the wait with children or callbacks of the task still pending.
C23_FinishNeverWaits ==
    \A p \in Threads :
        (fin[p].pc = "wait" /\ ~fin[p].wait) =>
            /\ DepWaitReady(children[fin[p].task])
            /\ DepWaitReady(callbacks[fin[p].task])

\* C24: when the wait of a first FinishAndWait on t ends without the timeout, t has
\* no children left and no callback registered on t or on a task below t is still
\* to complete.
C24_WaitDrainsSubtree ==
    [][\A p \in Threads :
          (/\ fin[p].pc = "wait" /\ fin[p].wait /\ fin[p].first
           /\ fin'[p].pc = "remove" /\ ~fin'[p].timedOut) =>
              /\ children[fin[p].task].m = {}
              /\ \A c \in CbIds :
                    (cbs[c].reg /\ cbs[c].task \in {fin[p].task} \cup fin[p].snap) =>
                        (cbs[c].runs > 0 /\ cbs[c].pending = 0
                         /\ c \notin callbacks[cbs[c].task].m)]_vars

\* the chain t, parent(t), parent(parent(t)), ... below the root
RECURSIVE VChain(_)
VChain(t) == IF vpar[t] \in VTasks THEN {t} \cup VChain(vpar[t]) ELSE {t}

\* the tasks of t's chain that have set k
VSetters(t, k) == {a \in VChain(t) : vals[a][k] # Unset}

\* the value set for k on the nearest task of t's chain that has set k, else nil
VNearest(t, k) ==
    IF VSetters(t, k) = {}
    THEN NilValue
    ELSE LET a == CHOOSE x \in VSetters(t, k) : VSetters(t, k) \subseteq VChain(x)
         IN vals[a][k]

\* C22: a GetValue(k) on t that no SetValue of k overlaps returns the latest value
\* set for k on the nearest task of the chain t, parent(t), ... that has set k, and
\* nil when none has: values of children and siblings are never returned, and a
\* task's own value shadows its ancestors'.
C22_GetValueNearest ==
    [][(vget.pc = "walk" /\ vget'.pc = "done" /\ ~vget.overlap) =>
          vget'.res = VNearest(vget.task, vget.key)]_vars

\* a GetValue answered by the parent's value while a sibling of the task holds
\* another value for the key
C22_Witness ==
    /\ vget.pc = "done" /\ ~vget.overlap
    /\ vget.cur = vpar[vget.task] /\ vget.res = 1
    /\ vals[vget.cur][vget.key] = 1
    /\ \E c \in VTasks : /\ c # vget.task /\ vpar[c] = vget.cur
                         /\ vals[c][vget.key] = NilValue

\* caller t's call of op returns in this step
PReturns(t, op) == pth'[t].op = op /\ pth'[t].pc = "done" /\ pth'[t] # pth[t]

\* C25 as stated: when Add(obj) returns, whatever the key's entry was (absent, live
\* or tombstone), Get(obj.Key()) gives (obj, true).
C25_AddThenGet ==
    [][\A t \in Threads :
          PReturns(t, "add") =>
              GetResult(pm'[ObjKey(pth'[t].obj)]) = [obj |-> pth'[t].obj, ok |-> TRUE]]_vars

\* C25: when Add(obj) returns, Get(obj.Key()) gives (obj, true), except that over a
\* live entry cur with obj Preferable and obj.PreferOver(cur) false it gives
\* (cur, true).
C25_AddThenGetUnlessKept ==
    [][\A t \in Threads :
          PReturns(t, "add") =>
              GetResult(pm'[ObjKey(pth'[t].obj)]) =
                  IF /\ pth'[t].saw = "live" /\ Preferable(pth'[t].obj)
                     /\ ~PreferOver(pth'[t].obj, pth'[t].sawObj)
                  THEN [obj |-> pth'[t].sawObj, ok |-> TRUE]
                  ELSE [obj |-> pth'[t].obj, ok |-> TRUE]]_vars

\* an Add over a tombstone has returned and its object is live
C25_Witness ==
    \E t \in Threads :
        /\ pth[t].op = "add" /\ pth[t].pc = "done"
        /\ pth[t].saw \in {"recent", "expired"}
        /\ pm[ObjKey(pth[t].obj)] = Live(pth[t].obj)

\* C26: Slice completes and returns the live objects in ascending Name() order, and
\* neither Get nor Iter yields a key whose entry is a tombstone, in every state the
\* pool operations lead to.
C26_SliceCompletesSorted ==
    [][\A t \in Threads :
          /\ PReturns(t, "slice") =>
                /\ ~pth'[t].panicked
                /\ {pth'[t].out[i] : i \in DOMAIN pth'[t].out} = LiveObjs(pm)
                /\ Len(pth'[t].out) = Cardinality(LiveObjs(pm))
                /\ \A i, j \in DOMAIN pth'[t].out :
                      i < j => ObjName(pth'[t].out[i]) <= ObjName(pth'[t].out[j])
          /\ PReturns(t, "iter") => \A k \in pth'[t].yield : pm[k].st # "tomb"
          /\ \A k \in PKeys : GetResult(pm[k]).ok => pm[k].st # "tomb"]_vars

\* C27: no step of PurgeExpiredTombs removes, hides or replaces a live entry,
\* whatever Add and Del do to the key while the purge runs.
C27_PurgeKeepsLive ==
    [][\A t \in Threads :
          (pth[t].op = "purge" /\ pth'[t].op = "purge" /\ pth'[t] # pth[t]) =>
              \A k \in PKeys : pm[k].st = "live" => pm'[k] = pm[k]]_vars

\* C28: when Del returns, Get on the key gives ok = false; an Add that finds the
\* tombstone Del left decrements the tombstone counter by one, logs "reloaded" when
\* the removal was less than the TTL before the call and "added" otherwise, and
\* installs its object as live.
C28_DelThenAdd ==
    [][\A t \in Threads :
          LET k == ObjKey(pth[t].obj)
          IN /\ PReturns(t, "del") => ~GetResult(pm'[ObjKey(pth'[t].obj)]).ok
             /\ (/\ pth[t].pc = "addTomb" /\ pth'[t].pc = "addStore"
                 /\ pth[t].after.st = "tomb" /\ pm[k] = pth[t].after) =>
                    /\ ptombs' = ptombs - 1
                    /\ pth'[t].action =
                           IF pth[t].now - pth[t].after.removedAt < recentlyRemovedTTL
                           THEN "reloaded" ELSE "added"
             /\ (/\ pth[t].pc = "addStore" /\ pth'[t].pc = "done"
                 /\ pth[t].after.st = "tomb") =>
                    pm'[k] = Live(pth[t].obj)]_vars

\* an Add over a tombstone older than the TTL has logged "added" and its object is
\* live, with the counter back at zero
C28_Witness ==
    \E t \in Threads :
        /\ pth[t].op = "add" /\ pth[t].pc = "done"
        /\ pth[t].saw = "expired" /\ pth[t].action = "added"
        /\ pm[ObjKey(pth[t].obj)] = Live(pth[t].obj)
        /\ ptombs = 0

\* no queued buffer has been reclaimed by the runtime
AllAlive ==
    /\ \A i \in 0..(SizedPools - 1) : \A j \in 1..Len(synk.pools[i]) : synk.pools[i][j].alive
    /\ \A j \in 1..Len(synk.largePool) : synk.largePool[j].alive
    /\ \A j \in 1..Len(synk.unsizedPool) : synk.unsizedPool[j].alive

\* b = GetSized(n) was taken from the empty pool and given back with
\* SizedBytesPool.Put, and nothing else was done
PutBack(n) ==
    /\ nOps = 2 /\ nBlk = 1 /\ held = {} /\ got.size = n
    /\ synk.unsizedPool = <<>> /\ AllAlive

\* C29: for every n, with b = GetSized(n) taken from the empty pool and put back,
\* the next GetSized(n) returns a buffer that starts at b's address (the first
\* allocation, offset 0).
C29_PutThenGetSameMemory ==
    [][\A n \in Sizes :
          (PutBack(n) /\ GetSized(n)) => \A h \in held' : h.blk = 1 /\ h.off = 0]_vars

\* the cap of the allocation the buffer f starts: the recorded full cap, or cap(f)
BlockCap(f) ==
    IF FullCapOf(synk.sizedFullCaps, f) = {}
    THEN f.cap
    ELSE (CHOOSE e \in FullCapOf(synk.sizedFullCaps, f) : TRUE).cap

\* large = GetSized(allocSize(k)) was taken from the empty pool and put back, and
\* front = GetSized(allocSize(k) - s) is the buffer f, served from the tiers
SplitSetting(f, s) ==
    /\ nOps = 3 /\ nBlk = 1 /\ held = {f} /\ got.size = f.len
    /\ got.path \in {"tier", "split"} /\ AllAlive
    /\ \E k \in 0..(SizedPools - 1) : BlockCap(f) = allocSize(k)
    /\ s >= PoolMin /\ s < BlockCap(f) /\ f.len + s = BlockCap(f)

C31_ReclaimedNeverReturned ==
    [][\A h \in held' \ held :
          \/ (nBlk' = nBlk + 1 /\ h.blk = nBlk' /\ h.off = 0)
          \/ \E q \in Queued : q[3].blk = h.blk /\ q[3].off = h.off]_vars

\* a buffer was taken, put back and reclaimed while queued; the next GetSized found
\* the tiers it looked in without a usable buffer, dropped the empty handle and
\* returned a second allocation
C31_Witness ==
    /\ nOps = 3 /\ nBlk = 2 /\ got.path = "alloc"
    /\ \E h \in held : held = {h} /\ h.blk = 2
    /\ synk.unsizedPool = <<>> /\ synk.largePool = <<>>
    /\ \A i \in 0..(SizedPools - 1) : synk.pools[i] = <<>>

\* C32: a GetSized(size) with size < 0 hands out no buffer and leaves the tiers and
\* the other channels as they were.
C32_NegativeSizeRejected ==
    [][\A size \in Sizes : (size < 0 /\ GetSized(size)) => (held' = held /\ synk' = synk)]_vars

\* C36 as stated: every buffer queued in sized tier i has a cap in
\* (allocSize(i-1), allocSize(i)], the lower end being 0 for tier 0.
C36_TierCapUpTo ==
    \A i \in 0..(SizedPools - 1) : \A j \in 1..Len(synk.pools[i]) :
        /\ synk.pools[i][j].cap <= allocSize(i)
        /\ synk.pools[i][j].cap > (IF i = 0 THEN 0 ELSE allocSize(i - 1))

\* C36: every buffer queued in sized tier i has a cap in [allocSize(i), allocSize(i+1)),
\* and in the last tier a cap of exactly allocSize(SizedPools-1).
C36_TierCapFrom ==
    \A i \in 0..(SizedPools - 1) : \A j \in 1..Len(synk.pools[i]) :
        /\ synk.pools[i][j].cap >= allocSize(i)
        /\ synk.pools[i][j].cap < allocSize(i + 1)
        /\ synk.pools[i][j].cap <= PoolMax

\* the remainder of a split, whose cap is not a tier's allocSize, is queued in the
\* tier below the one poolIdx names
C36_Witness ==
    \E i \in 0..(SizedPools - 1) : \E j \in 1..Len(synk.pools[i]) :
        /\ synk.pools[i][j].cap > allocSize(i)
        /\ poolIdx(synk.pools[i][j].cap) = i + 1
        /\ synk.sizedFullCaps # {}

\* C37: no two buffers that GetSized has returned and that have not been put back
\* span a common byte, when only GetSized and SizedBytesPool.Put are used.
C37_OutstandingDisjoint ==
    \A a, b \in held : a # b => ~Overlap(a, b)

\* no pool operation is under way
PQuiet == \A t \in Threads : pth[t].pc \in {"idle", "done"}

\* C38: whenever no operation is under way, the tombs counter equals the number of
\* tombstone entries in the map, has not gone below zero and is at most Size().
C38_TombsCountsTombstones ==
    PQuiet =>
        /\ ptombs = Cardinality({k \in PKeys : pm[k].st = "tomb"})
        /\ ptombs >= 0
        /\ ptombs <= MapSize(pm)

\* C34: no step of the janitor's Cleanup deletes from the entries map the entry of
\* a key whose fn invocation is under way (its caller holds the entry's lock and
\* is in fn or between two retries).
C34_CleanupSparesComputing ==
    [][\A k \in Keys :
          (entries[k] # NoEntry /\ entries'[k] = NoEntry) =>
              ~\E t \in Threads :
                  /\ kth[t].entry = entries[k]
                  /\ kth[t].pc \in {"fn", "retry"}
                  /\ ent[entries[k]].lock = t]_vars

\* caller t returns from callContext in this step and its deferred TriggerCleanup runs
Triggers(t) ==
    /\ kth[t].pc \in {"fn", "retry"} /\ kth'[t].pc \in {"idle", "deferred"}
    /\ kth[t].deferTrigger

\* the janitor's runLoop receives the state's signal in this step
TakesSignal == jan.signal > 0 /\ jan'.signal = 0

C40_PendingOnlyWhileQueued ==
    jan.pendingCleanup => (jan.signal > 0 \/ jan.pc # "idle")

\* goroutine t's call of op returns (or panics) in this step
DReturns(t, op) == dth[t].op = op /\ dth[t].pc \notin {"idle", "done"} /\ dth'[t].pc \in {"done", "panic"}

\* C33: a Wait returns nil only with the count at zero, and returns nothing but nil
\* or ctx.Err(); and no Wait stays blocked on an open channel with its context
\* live once the count is back at zero and every Add and Delete has returned.
C33_WaitProtocol ==
    [][\A t \in Threads :
          /\ DReturns(t, "wait") =>
                /\ dth'[t].res \in {"nil", "ctx"}
                /\ dth'[t].res = "nil" => dcount = 0
                /\ dth'[t].res = "ctx" => dctx
          /\ ~(/\ dth'[t].pc = "waitSelect" /\ dchans'[dth'[t].done] = 0
               /\ dcount' = 0
               /\ \A u \in Threads \ {t} : dth'[u].pc \in {"idle", "done"})]_vars

\* C39: no channel is closed twice, and whenever every Add and Delete has returned
\* and the set holds elements (count > 0), the channel w.done points to is open.
C39_CloseOnceWhenEmpty ==
    /\ \A c \in DOMAIN dchans : dchans[c] <= 1
    /\ ((\A t \in Threads : dth[t].pc \in {"idle", "done"}) /\ dcount > 0) =>
           (ddone # NilChan /\ dchans[ddone] = 0)

====
